---- MODULE Spec2Model ----
(***************************************************************************)
(* Flightdeck core: scanProject, the feature-usage scanner and compliance  *)
(* engine (walk, per-format extraction, coverage estimate, severity policy,*)
(* summary, report).  One scan is a sequence of steps: Start (config,      *)
(* analytics, walk), ExtractFile per collected file, Classify (coverage    *)
(* and severity loop), Assemble (summary) and Finish (report files,        *)
(* return).  A throw anywhere rejects the promise: pc = "failed".          *)
(* Further specifications: SpecTwice (a second call), SpecCli (the scan    *)
(* command and its exit code, in either build), SpecSample (the sample),   *)
(* SpecPartial (configuration files with omitted fields), SpecCoverage     *)
(* (estimateCoverage on its own), SpecLint (the lint rule and its cache,   *)
(* with either of the two scanProject of the sources), SpecAdvise (the     *)
(* advise command), SpecReorder (the same files walked in another order)   *)
(* and SpecBudget (the same scan under a higher coverageBudget).           *)
(***************************************************************************)
EXTENDS Integers, Sequences, FiniteSets, TLC

VARIABLES
    FEATURES,      \* module constant read from data/features.json
    srcDir,        \* opts.srcDir: the directory on disk (missing, or its entries in readdir order)
    rc,            \* the configuration source (opts.config, else .flightdeckrc.json): NoFile or its JSON
    csv,           \* the analytics file cfg.analyticsCsv names: NoFile or its rows
    core,          \* the module that "@flightdeck/core" resolves to in this build
    outDir,        \* opts.outDir: NoDir (undefined), or where the report directory lies
    pc,            \* position in scanProject
    cfg,           \* const cfg
    analytics,     \* const analytics
    usages,        \* const usages: Record<string,FeatureUsage>
    keys,          \* insertion order of the keys of usages (Object.entries order)
    files,         \* const files = walk(srcDir)
    idx,           \* position of the for-of loop over files
    totalCovered,  \* let totalCovered
    totalCount,    \* let totalCount
    res,           \* const res: ScanResult
    readLog,       \* source files read so far by fs.readFileSync(file)
    disk,          \* the files under outDir, by name
    scanNo,        \* which call of scanProject this is
    prev,          \* outcome of the previous call, as its caller saw it
    probe,         \* one call of a pure function of the engine: its arguments and result
    exitCode,      \* process.exit code of the CLI scan command (NoExit while it runs)
    lint,          \* one instance of the lint rule: its cache and its Program calls
    advise         \* one run of the CLI advise command: its position, result and output

vars == << FEATURES, core, srcDir, rc, csv, outDir, pc, cfg, analytics, usages, keys,
           files, idx, totalCovered, totalCount, res, readLog, disk, scanNo, prev,
           probe, exitCode, lint, advise >>

\* What the callers of scanProject hold
callers == << probe, exitCode, lint, advise >>

inputs == << FEATURES, core, srcDir, rc, csv, outDir >>

\* A path that does not exist, and a file or directory with its content
NoFile == [exists |-> FALSE]
File(content) == [exists |-> TRUE, content |-> content]
Null == [null |-> TRUE]
NoExit == 0 - 1

\* opts.outDir: undefined, a directory outside the scanned tree, or path.join(srcDir,
\* ".baseline") (the default report directory of the advise command)
NoDir == ""
OutsideDir == "report"
InsideDir == ".baseline"
OutDirs == {NoDir, OutsideDir, InsideDir}

\* The two modules of the sources that export scanProject: the engine with configuration,
\* severities and summary, and the file at the path of the package.  Nothing in the
\* sources says which one `import { scanProject } from "@flightdeck/core"` links
EngineModule == "src/unnamed/part_000"
PackageModule == "src/packages/core/src/index.ts"
Cores == {EngineModule, PackageModule}
EmptyMap == [x \in {} |-> 0]

Severities == {"info", "warn", "error"}
Statuses == {"widely", "newly", "none"}

Has(r, f) == f \in DOMAIN r

\* A boolean field of a JSON object in a condition: an absent field is undefined, falsy
Truthy(r, f) == Has(r, f) /\ r[f]

\* ---------------------------------------------------------------- bounds
MaxFiles == 2

\* ---------------------------------------------------------------- data tables
\* aliases.json as generated by the data-preparation script
ALIASES ==
    [ t \in { "navigator.clipboard", "document.startViewTransition", "HTMLDialogElement",
              "Element.prototype.togglePopover", ":has", "popover", "dialog",
              "popovertarget", "fetchpriority" } |->
        CASE t = "navigator.clipboard" -> "clipboard-api"
          [] t = "document.startViewTransition" -> "view-transitions"
          [] t = "HTMLDialogElement" -> "dialog-element"
          [] t = "Element.prototype.togglePopover" -> "popover-attribute"
          [] t = ":has" -> "selector-has"
          [] t = "popover" -> "popover-attribute"
          [] t = "dialog" -> "dialog-element"
          [] t = "popovertarget" -> "popover-attribute"
          [] t = "fetchpriority" -> "fetch-priority-attribute" ]

\* The feature ids of data/features.json.  "clipboard-api", "popover-attribute" and
\* "fetch-priority-attribute" are alias targets without an entry in this table.
FeatureIds == {"view-transitions", "selector-has", "dialog-element"}

Browsers == {"chrome", "firefox", "safari"}

\* data/features.json: one FeatureMeta per id (browsers: the names that have a minimum version)
FeatureTable ==
    [ f \in FeatureIds |->
        CASE f = "view-transitions" -> [id |-> f, status |-> "none",   browsers |-> {"chrome"}]
          [] f = "selector-has"     -> [id |-> f, status |-> "newly",  browsers |-> {"chrome", "firefox"}]
          [] f = "dialog-element"   -> [id |-> f, status |-> "widely", browsers |-> {"firefox"}] ]

\* browserslist(query): the selected "name version" strings
browserslist(q) ==
    IF q = ">0.5%, not dead"
    THEN << [name |-> "chrome", version |-> "120"], [name |-> "chrome", version |-> "119"],
            [name |-> "firefox", version |-> "121"], [name |-> "safari", version |-> "17.2"] >>
    ELSE IF q = ">99%" THEN << >>
    ELSE << [name |-> "chrome", version |-> "120"] >>

\* ---------------------------------------------------------------- the source tree
\* Directory entries by name.  kind: what the extension regex of walk and scanProject
\* selects; parses: whether the format's parser accepts the text; wrapped: whether the
\* text matches /@supports\s*\(/; visits: the nodes the extractor visits, in its visiting
\* order (script: member expressions and identifiers with their lookup key; style: rules,
\* then declarations; markup: elements and attributes), each with its start position and
\* the trimmed source line.  kind "nostat": an entry whose statSync throws (EACCES, ELOOP).
\* kind "dir": a directory, walked recursively; its entries are in Children.  The files
\* under ".baseline" are the report files a scan wrote there; the page index.html has
\* the elements html, head (implied, without location), body, h1 and p in one line whose
\* text depends on the summary and which no lookup of the extractor reads.
V(token, line, column, snippet) ==
    [token |-> token, line |-> line, column |-> column, snippet |-> snippet]

Entries ==
    [ e \in {"app.js", "broken.js", "style.css", "plain.css", "index.html", "README.md", "locked",
             "main.js", ".baseline", ".baseline/report.json", ".baseline/index.html",
             ".baseline/badge.svg", ".baseline/suggestions.md"} |->
        CASE e = ".baseline" ->
                [kind |-> "dir", parses |-> FALSE, wrapped |-> FALSE, visits |-> << >>]
          [] e \in {".baseline/report.json", ".baseline/badge.svg", ".baseline/suggestions.md"} ->
                [kind |-> "other", parses |-> TRUE, wrapped |-> FALSE, visits |-> << >>]
          [] e = ".baseline/index.html" ->
                [kind |-> "markup", parses |-> TRUE, wrapped |-> FALSE, visits |->
                   << V("html", 1, 16, ""), V("head", 1, 0, ""), V("body", 1, 22, ""),
                      V("h1", 1, 28, ""), V("p", 1, 56, "") >>]
          [] e = "app.js" ->
                [kind |-> "script", parses |-> TRUE, wrapped |-> FALSE, visits |->
                   << V("console.log", 1, 0, "console.log('boot');"),
                      V("document.startViewTransition", 2, 39,
                        "if ('startViewTransition' in document) document.startViewTransition(go);"),
                      V("HTMLDialogElement", 4, 17, "if (d instanceof HTMLDialogElement) d.showModal();"),
                      V("HTMLDialogElement", 7, 15, "const d2 = new HTMLDialogElement();") >>]
          [] e = "broken.js" ->
                [kind |-> "script", parses |-> FALSE, wrapped |-> FALSE, visits |-> << >>]
          [] e = "style.css" ->
                [kind |-> "style", parses |-> TRUE, wrapped |-> TRUE, visits |->
                   << V(":has", 2, 3, ".card:has(button)"),
                      V("dialog", 5, 1, "dialog::backdrop") >>]
          [] e = "plain.css" ->
                [kind |-> "style", parses |-> TRUE, wrapped |-> FALSE, visits |->
                   << V(":has", 1, 1, ".card:has(button)") >>]
          [] e = "index.html" ->
                [kind |-> "markup", parses |-> TRUE, wrapped |-> FALSE, visits |->
                   << V("body", 2, 1, "<body>"),
                      V("dialog", 3, 5, "<dialog open>"),
                      V("fetchpriority", 6, 10, "<img fetchpriority=high>") >>]
          [] e = "README.md" ->
                [kind |-> "other", parses |-> TRUE, wrapped |-> FALSE, visits |-> << >>]
          [] e = "locked" ->
                [kind |-> "nostat", parses |-> FALSE, wrapped |-> FALSE, visits |-> << >>]
          [] e = "main.js" ->
                [kind |-> "script", parses |-> TRUE, wrapped |-> FALSE, visits |->
                   << V("document.startViewTransition", 1, 4, "if (document.startViewTransition) {"),
                      V("document.startViewTransition", 2, 2, "document.startViewTransition(() => {"),
                      V("console.log", 3, 4, "console.log(\"Transition!\");"),
                      V(".catch", 7, 0,
                        "navigator.clipboard?.readText?.().then(t => console.log(t)).catch(() => {});"),
                      V(".then", 7, 0,
                        "navigator.clipboard?.readText?.().then(t => console.log(t)).catch(() => {});"),
                      V("navigator.clipboard", 7, 0,
                        "navigator.clipboard?.readText?.().then(t => console.log(t)).catch(() => {});"),
                      V("console.log", 7, 44,
                        "navigator.clipboard?.readText?.().then(t => console.log(t)).catch(() => {});") >>] ]

\* Lexicographic rank of the paths (string comparison of path.join(dir, e))
PathRank ==
    [ e \in DOMAIN Entries |->
        CASE e = ".baseline" -> 0
          [] e = ".baseline/badge.svg" -> 1
          [] e = ".baseline/index.html" -> 2
          [] e = ".baseline/report.json" -> 3
          [] e = ".baseline/suggestions.md" -> 4
          [] e = "README.md" -> 5
          [] e = "app.js" -> 6
          [] e = "broken.js" -> 7
          [] e = "index.html" -> 8
          [] e = "locked" -> 9
          [] e = "main.js" -> 10
          [] e = "plain.css" -> 11
          [] e = "style.css" -> 12 ]

\* The entries of the directories inside the scanned trees, as paths from the root
Children ==
    [ d \in {".baseline"} |->
        << ".baseline/badge.svg", ".baseline/index.html", ".baseline/report.json" >> ]

\* Source lines of the tree that match the guard idiom of isProgressiveJS
GuardIdiomLines ==
    { "if ('startViewTransition' in document) document.startViewTransition(go);" }

\* ---------------------------------------------------------------- numbers
\* The values of a JavaScript number that are not finite.  Every finite number of the
\* model is an integer within a few thousand of 0; Infinity and NaN are two integers far
\* outside that range, and they are operands of the operators below only, never of the
\* integer operators.
Infinity == 1000000
NaN == 0 - 1000000

\* a + b (no -Infinity occurs)
Plus(a, b) ==
    IF a = NaN \/ b = NaN THEN NaN
    ELSE IF a = Infinity \/ b = Infinity THEN Infinity
    ELSE a + b

\* a * n for a finite n
Times(a, n) == IF a = NaN THEN NaN ELSE a * n

\* a < b and a >= b: false when an operand is NaN
Less(a, b) == a # NaN /\ b # NaN /\ a < b
AtLeast(a, b) == a # NaN /\ b # NaN /\ a >= b

\* ---------------------------------------------------------------- configuration and audience data
\* Override entries of cfg.overrides[id]: minCoverage and severity are both optional
OverrideEntries ==
    { [severity |-> "info"], [severity |-> "warn"], [severity |-> "error"],
      [minCoverage |-> 80], [minCoverage |-> 0],
      [severity |-> "info", minCoverage |-> 80] }

Budgets == {0, 70, 95, 100}

Config(budget, newly, ignore, overrides) ==
    [ profile |-> "moderate", baselineYear |-> 2024, coverageBudget |-> budget,
      treatNewlyAsViolation |-> newly, ignore |-> ignore, overrides |-> overrides,
      analyticsCsv |-> "analytics.csv" ]

IgnoreLists == {{}} \cup {{f} : f \in FeatureIds}
OverrideMaps == {EmptyMap} \cup {[x \in {f} |-> e] : f \in FeatureIds, e \in OverrideEntries}

\* .flightdeckrc.json files without overrides, and all of them
PlainConfigs == {Config(b, n, ig, EmptyMap) : b \in Budgets, n \in BOOLEAN, ig \in IgnoreLists}
AllConfigs == {Config(b, n, ig, ov) : b \in Budgets, n \in BOOLEAN, ig \in IgnoreLists, ov \in OverrideMaps}

\* .flightdeckrc.json files that leave fields out; loadConfig returns them as they are
PartialConfigs ==
    { [coverageBudget |-> 70],
      [coverageBudget |-> 70, treatNewlyAsViolation |-> FALSE, ignore |-> {"dialog-element"}],
      [ignore |-> {}, overrides |-> EmptyMap],
      [coverageBudget |-> 95, treatNewlyAsViolation |-> FALSE, ignore |-> {},
       overrides |-> EmptyMap] }

\* Number(share) of the share texts of the audience files that are numbers: decimal
\* texts, the empty text (0) and "Infinity" (Infinity).  Number("n/a"), the one share
\* text of the audience files outside this table, is NaN.
NumberOf ==
    [ t \in {"70", "30", "-50", "150", "0", "", "Infinity"} |->
        CASE t = "70" -> 70 [] t = "30" -> 30 [] t = "-50" -> 0 - 50
          [] t = "150" -> 150 [] t = "0" -> 0 [] t = "" -> 0
          [] t = "Infinity" -> Infinity ]

\* ua.trim().toLowerCase() of the browser names of the audience files
TrimLower(ua) ==
    CASE ua = "Chrome " -> "chrome"
      [] ua = " Firefox" -> "firefox"
      [] OTHER -> ua

Row(ua, share) == [ua |-> ua, share |-> share]

\* Audience files: the non-empty lines, the header line first
CsvFiles ==
    { << Row("ua", "share"), Row("chrome", "70"), Row("firefox", "30") >>,
      << Row("ua", "share"), Row("chrome", "-50"), Row("firefox", "150") >>,
      << Row("ua", "share"), Row("chrome", "0") >>,
      << Row("ua", "share"), Row("chrome", "70"), Row("firefox", "Infinity") >>,
      << Row("ua", "share"), Row("Chrome ", "70"), Row("safari", "n/a"), Row(" Firefox", "30"),
         Row("edge", "") >> }

\* Directories: the entries in the order readdirSync and the recursion enumerate them
RECURSIVE SeqsOver(_, _)
SeqsOver(S, n) ==
    IF n = 0 THEN {<< >>}
    ELSE LET shorter == SeqsOver(S, n - 1)
         IN shorter \cup {Append(q, e) : q \in {r \in shorter : Len(r) = n - 1}, e \in S}

IsInjective(q) == \A i, j \in 1..Len(q) : i # j => q[i] # q[j]
\* The entries of the scanned trees; main.js is the script of examples/sample-app
TreeEntries ==
    {"app.js", "broken.js", "style.css", "plain.css", "index.html", "README.md", "locked"}
Dirs == {q \in SeqsOver(TreeEntries, MaxFiles) : IsInjective(q)}
PolicyDirs == { <<"app.js", "style.css">>, <<"plain.css", "index.html">> }

\* ---------------------------------------------------------------- helpers of the engine
Put(f, k, v) == [x \in DOMAIN f \cup {k} |-> IF x = k THEN v ELSE f[x]]

RECURSIVE SumOver(_, _)
SumOver(f, S) ==
    IF S = {} THEN 0
    ELSE LET k == CHOOSE x \in S : TRUE IN Plus(f[k], SumOver(f, S \ {k}))

\* Math.round(n / d) for d # 0: the nearest integer, halves towards +Infinity
MathRound(n, d) ==
    IF d > 0 THEN (2 * n + d) \div (2 * d)
    ELSE (2 * (0 - n) + (0 - d)) \div (2 * (0 - d))

\* Math.round(covered / total * 100) in IEEE-754 doubles.  The quotient is rounded to 53
\* bits before it is multiplied, so the product can lie just below a half that
\* covered * 100 / total hits exactly: 23 / 40 * 100 is 57.49999999999999.  BelowHalf
\* lists the (covered, total) with that outcome among the sums of ShareValues; on every
\* other pair of the inputs the double result is the exact rounding.  With a total of
\* Infinity the quotient is NaN for a covered sum of Infinity and 0 for a finite one.
BelowHalf == { << 23, 40 >> }

RoundPercent(covered, total) ==
    IF covered = NaN \/ total = NaN THEN NaN
    ELSE IF total = Infinity THEN (IF covered = Infinity THEN NaN ELSE 0)
    ELSE IF covered = Infinity THEN Infinity
    ELSE IF << covered, total >> \in BelowHalf
    THEN MathRound(covered * 100, total) - 1
    ELSE MathRound(covered * 100, total)

\* Math.min(a, b): NaN when an operand is NaN
MathMin(a, b) == IF a = NaN \/ b = NaN THEN NaN ELSE IF a < b THEN a ELSE b

loadConfig(file) ==
    IF ~file.exists
    THEN [ profile |-> "moderate", baselineYear |-> 2024, coverageBudget |-> 95,
           treatNewlyAsViolation |-> FALSE, ignore |-> {}, overrides |-> EmptyMap,
           browserslist |-> ">0.5%, not dead" ]
    ELSE file.content

\* A parser that gives up at the first row whose share is not a number
RECURSIVE parseRows_StopsAtBadRow(_, _, _)
parseRows_StopsAtBadRow(rows, i, out) ==
    IF i > Len(rows) THEN out
    ELSE IF i = 1 THEN parseRows_StopsAtBadRow(rows, i + 1, out)
    ELSE IF rows[i].ua = "" THEN parseRows_StopsAtBadRow(rows, i + 1, out)
    ELSE IF rows[i].share \in DOMAIN NumberOf
         THEN parseRows_StopsAtBadRow(rows, i + 1,
                                      Put(out, TrimLower(rows[i].ua), NumberOf[rows[i].share]))
         ELSE out

RECURSIVE parseRows(_, _, _)
parseRows(rows, i, out) ==
    IF i > Len(rows) THEN out
    ELSE IF i = 1 THEN parseRows(rows, i + 1, out)
    ELSE IF rows[i].ua = "" THEN parseRows(rows, i + 1, out)
    ELSE IF rows[i].share \in DOMAIN NumberOf
         THEN parseRows(rows, i + 1, Put(out, TrimLower(rows[i].ua), NumberOf[rows[i].share]))
         ELSE parseRows(rows, i + 1, out)

\* p given: cfg.analyticsCsv is set; file: what is at that path
parseAnalyticsCsv(given, file) ==
    IF ~given \/ ~file.exists THEN EmptyMap ELSE parseRows(file.content, 1, EmptyMap)

\* min: the browser names with a minimum version in the feature's browsers record.
\* total ? ... : 0 takes a total of 0 or NaN as false
estimateCoverage(min, an, c) ==
    IF DOMAIN an # {}
    THEN LET total == SumOver(an, DOMAIN an)
             covered == SumOver(an, DOMAIN an \cap min)
         IN IF total # 0 /\ total # NaN THEN RoundPercent(covered, total) ELSE 0
    ELSE LET selected == browserslist(IF Has(c, "browserslist") THEN c.browserslist
                                      ELSE ">0.5%, not dead")
             set == {selected[i].name : i \in 1..Len(selected)}
             have == Cardinality(set \cap min)
         IN IF set # {} THEN RoundPercent(have, Cardinality(set)) ELSE 0

\* walk(dir): the matching files in enumeration order, or a throw (a missing root, or an
\* entry whose stat fails)
IsSource(e) == Entries[e].kind \in {"script", "style", "markup"}

\* What one entry adds to acc: the matching files of a directory, or the entry itself
filesOf(e) ==
    IF Entries[e].kind = "dir" THEN SelectSeq(Children[e], IsSource)
    ELSE IF IsSource(e) THEN << e >> ELSE << >>

RECURSIVE collect(_, _)
collect(entries, i) ==
    IF i > Len(entries) THEN << >> ELSE filesOf(entries[i]) \o collect(entries, i + 1)

\* A walk that returns no files for a missing root
walk_MissingIsEmpty(dir) ==
    IF ~dir.exists THEN [threw |-> FALSE, files |-> << >>]
    ELSE IF \E i \in 1..Len(dir.content) : Entries[dir.content[i]].kind = "nostat"
         THEN [threw |-> TRUE, files |-> << >>]
         ELSE [threw |-> FALSE, files |-> collect(dir.content, 1)]

walk(dir) ==
    IF ~dir.exists THEN [threw |-> TRUE, files |-> << >>]
    ELSE IF \E i \in 1..Len(dir.content) : Entries[dir.content[i]].kind = "nostat"
         THEN [threw |-> TRUE, files |-> << >>]
         ELSE [threw |-> FALSE, files |-> collect(dir.content, 1)]

\* An addHit that counts a feature once, at its first hit
addHit_CountsOnce(us, ks, id, file, line, column, snippet) ==
    IF id \notin DOMAIN FEATURES THEN [usages |-> us, keys |-> ks]
    ELSE LET meta == FEATURES[id]
             u == IF id \in DOMAIN us THEN us[id]
                  ELSE [ id |-> id, count |-> 0, hits |-> << >>, status |-> meta.status,
                         coverage |-> 0, browsers |-> meta.browsers, severity |-> "info" ]
             hit == [file |-> file, line |-> line, column |-> column, snippet |-> snippet]
         IN [ usages |-> Put(us, id, [u EXCEPT !.count = 1, !.hits = Append(@, hit)]),
              keys |-> IF id \in DOMAIN us THEN ks ELSE Append(ks, id) ]

addHit(us, ks, id, file, line, column, snippet) ==
    IF id \notin DOMAIN FEATURES THEN [usages |-> us, keys |-> ks]
    ELSE LET meta == FEATURES[id]
             u == IF id \in DOMAIN us THEN us[id]
                  ELSE [ id |-> id, count |-> 0, hits |-> << >>, status |-> meta.status,
                         coverage |-> 0, browsers |-> meta.browsers, severity |-> "info" ]
             hit == [file |-> file, line |-> line, column |-> column, snippet |-> snippet]
         IN [ usages |-> Put(us, id, [u EXCEPT !.count = @ + 1, !.hits = Append(@, hit)]),
              keys |-> IF id \in DOMAIN us THEN ks ELSE Append(ks, id) ]

isProgressiveJS(context) == context \in GuardIdiomLines

\* A wrapper test that holds for every stylesheet
hasSupportsWrapper_Always(file) == TRUE

hasSupportsWrapper(file) == Entries[file].wrapped

\* ---------------------------------------------------------------- extraction of one file
Ext(us, ks, threw) == [usages |-> us, keys |-> ks, threw |-> threw]

\* A traversal that looks up identifiers only, never member expressions
RECURSIVE scriptVisits_IdentifiersOnly(_, _, _, _)
scriptVisits_IdentifiersOnly(st, file, visits, i) ==
    IF i > Len(visits) \/ st.threw THEN st
    ELSE IF visits[i].token # "HTMLDialogElement"
         THEN scriptVisits_IdentifiersOnly(st, file, visits, i + 1)
    ELSE LET v == visits[i]
             id == ALIASES[v.token]
             a == addHit(st.usages, st.keys, id, file, v.line, v.column, v.snippet)
         IN scriptVisits_IdentifiersOnly(Ext(a.usages, a.keys, FALSE), file, visits, i + 1)

\* A traversal in which the last hit decides the severity: warn on a guarded line, info
\* on any other
RECURSIVE scriptVisits_LastHitDecides(_, _, _, _)
scriptVisits_LastHitDecides(st, file, visits, i) ==
    IF i > Len(visits) \/ st.threw THEN st
    ELSE IF visits[i].token \notin DOMAIN ALIASES
         THEN scriptVisits_LastHitDecides(st, file, visits, i + 1)
    ELSE LET v == visits[i]
             id == ALIASES[v.token]
             a == addHit(st.usages, st.keys, id, file, v.line, v.column, v.snippet)
             sev == IF isProgressiveJS(v.snippet) THEN "warn" ELSE "info"
             next == IF id \in DOMAIN a.usages
                     THEN Ext([a.usages EXCEPT ![id].severity = sev], a.keys, FALSE)
                     ELSE Ext(a.usages, a.keys, isProgressiveJS(v.snippet))
         IN scriptVisits_LastHitDecides(next, file, visits, i + 1)

\* traverse(ast, {enter}): member expressions and identifiers whose key is an alias; the
\* severity write after addHit dereferences usages[id], which throws when addHit returned
\* without an entry
RECURSIVE scriptVisits(_, _, _, _)
scriptVisits(st, file, visits, i) ==
    IF i > Len(visits) \/ st.threw THEN st
    ELSE IF visits[i].token \notin DOMAIN ALIASES THEN scriptVisits(st, file, visits, i + 1)
    ELSE LET v == visits[i]
             id == ALIASES[v.token]
             a == addHit(st.usages, st.keys, id, file, v.line, v.column, v.snippet)
             next == IF ~isProgressiveJS(v.snippet) THEN Ext(a.usages, a.keys, FALSE)
                     ELSE IF id \in DOMAIN a.usages
                          THEN Ext([a.usages EXCEPT ![id].severity = "warn"], a.keys, FALSE)
                          ELSE Ext(a.usages, a.keys, TRUE)
         IN scriptVisits(next, file, visits, i + 1)

\* root.walkRules then root.walkDecls: every visit is a ":has", "dialog" or "popover" match
RECURSIVE styleVisits(_, _, _, _)
styleVisits(st, file, visits, i) ==
    IF i > Len(visits) THEN st
    ELSE LET v == visits[i]
             a == addHit(st.usages, st.keys, ALIASES[v.token], file, v.line, v.column, v.snippet)
         IN styleVisits(Ext(a.usages, a.keys, FALSE), file, visits, i + 1)

\* if (wrapped): every usage with a hit in this file goes from info to warn
softenWrapped(us, file) ==
    [ id \in DOMAIN us |->
        IF (\E k \in 1..Len(us[id].hits) : us[id].hits[k].file = file) /\ us[id].severity = "info"
        THEN [us[id] EXCEPT !.severity = "warn"]
        ELSE us[id] ]

\* visit(doc): element names and attribute names that are alias keys
RECURSIVE markupVisits(_, _, _, _)
markupVisits(st, file, visits, i) ==
    IF i > Len(visits) THEN st
    ELSE IF visits[i].token \notin DOMAIN ALIASES THEN markupVisits(st, file, visits, i + 1)
    ELSE LET v == visits[i]
             a == addHit(st.usages, st.keys, ALIASES[v.token], file, v.line, v.column, v.snippet)
         IN markupVisits(Ext(a.usages, a.keys, FALSE), file, visits, i + 1)

\* The body of the for-of loop over files, after readFileSync
extractFile(us, ks, file) ==
    LET e == Entries[file] IN
    IF e.kind = "script"
    THEN IF ~e.parses THEN Ext(us, ks, TRUE)
         ELSE scriptVisits(Ext(us, ks, FALSE), file, e.visits, 1)
    ELSE IF e.kind = "style"
    THEN IF ~e.parses THEN Ext(us, ks, TRUE)
         ELSE LET st == styleVisits(Ext(us, ks, FALSE), file, e.visits, 1)
              IN IF hasSupportsWrapper(file)
                 THEN Ext(softenWrapped(st.usages, file), st.keys, FALSE)
                 ELSE st
    ELSE markupVisits(Ext(us, ks, FALSE), file, e.visits, 1)

\* ---------------------------------------------------------------- severity policy
\* The ignore test looks the id up in the wrong collection
IsIgnored_InOverrides(id, c) == Has(c, "overrides") /\ id \in DOMAIN c.overrides

IsIgnored(id, c) == id \in c.ignore

\* The status rule without its none branch
StatusRule_NoneForgotten(sev, status, c) ==
    IF status = "newly"
    THEN IF Truthy(c, "treatNewlyAsViolation") THEN "error"
         ELSE IF sev = "info" THEN "warn" ELSE sev
    ELSE sev

\* A status rule that leaves a newly-status feature as extraction left it
StatusRule_NewlyUntouched(sev, status, c) ==
    IF status = "none" THEN "error"
    ELSE IF status = "newly"
         THEN IF Truthy(c, "treatNewlyAsViolation") THEN "error" ELSE sev
         ELSE sev

StatusRule(sev, status, c) ==
    IF status = "none" THEN "error"
    ELSE IF status = "newly"
         THEN IF Truthy(c, "treatNewlyAsViolation") THEN "error"
              ELSE IF sev = "info" THEN "warn" ELSE sev
         ELSE sev

\* An override severity that is applied only when it raises the severity
OverrideSeverityRule_OnlyRaises(sev, id, c) ==
    IF /\ id \in DOMAIN c.overrides
       /\ Has(c.overrides[id], "severity")
       /\ \/ sev = "info"
          \/ sev = "warn" /\ c.overrides[id].severity = "error"
    THEN c.overrides[id].severity
    ELSE sev

OverrideSeverityRule(sev, id, c) ==
    IF id \in DOMAIN c.overrides /\ Has(c.overrides[id], "severity")
    THEN c.overrides[id].severity
    ELSE sev

\* The minCoverage rule raises to warn only
MinCoverageRule_Warns(sev, id, coverage, c) ==
    IF /\ id \in DOMAIN c.overrides
       /\ Has(c.overrides[id], "minCoverage")
       /\ c.overrides[id].minCoverage # 0
       /\ Less(coverage, c.overrides[id].minCoverage)
    THEN IF sev = "error" THEN "error" ELSE "warn"
    ELSE sev

\* cfg.overrides[id]?.minCoverage && ...: a minCoverage of 0 is falsy
MinCoverageRule(sev, id, coverage, c) ==
    IF /\ id \in DOMAIN c.overrides
       /\ Has(c.overrides[id], "minCoverage")
       /\ c.overrides[id].minCoverage # 0
       /\ Less(coverage, c.overrides[id].minCoverage)
    THEN "error"
    ELSE sev

\* A budget rule with the comparison the wrong way round
BudgetRule_Reversed(sev, coverage, c) ==
    IF Has(c, "coverageBudget") /\ Less(c.coverageBudget, coverage)
    THEN IF sev = "error" THEN "error" ELSE "warn"
    ELSE sev

\* A budget rule that sets warn whatever the severity was
BudgetRule_AlwaysWarn(sev, coverage, c) ==
    IF Has(c, "coverageBudget") /\ Less(coverage, c.coverageBudget)
    THEN "warn"
    ELSE sev

\* u.coverage < cfg.coverageBudget: false when the field is absent (undefined) and when
\* the coverage is NaN
BudgetRule(sev, coverage, c) ==
    IF Has(c, "coverageBudget") /\ Less(coverage, c.coverageBudget)
    THEN IF sev = "error" THEN "error" ELSE "warn"
    ELSE sev

\* The state of the loop over Object.entries(usages): the usages object as written so
\* far and the two totals; threw: a TypeError left the loop
Loop(us, covered, count) ==
    [usages |-> us, totalCovered |-> covered, totalCount |-> count, threw |-> FALSE]
Thrown(us, covered, count) ==
    [usages |-> us, totalCovered |-> covered, totalCount |-> count, threw |-> TRUE]

\* One iteration of the loop over Object.entries(usages).  u.coverage is written first.
\* cfg.ignore.includes(id) and cfg.overrides[id] dereference fields that a configuration
\* file may omit: the TypeError leaves the object as the statements before it wrote it
\* (the coverage; at cfg.overrides also the severity of the status rule)
classifyOne(acc, id, an, c) ==
    LET feature == FEATURES[id]
        coverage == estimateCoverage(feature.browsers, an, c)
        u == [acc.usages[id] EXCEPT !.coverage = coverage]
    IN IF ~Has(c, "ignore")
       THEN Thrown(Put(acc.usages, id, u), acc.totalCovered, acc.totalCount)
       ELSE IF IsIgnored(id, c)
       THEN Loop(Put(acc.usages, id, [u EXCEPT !.severity = "info"]),
                 acc.totalCovered, acc.totalCount)
       ELSE LET s1 == StatusRule(u.severity, feature.status, c)
                s2 == OverrideSeverityRule(s1, id, c)
                s3 == MinCoverageRule(s2, id, coverage, c)
                s4 == BudgetRule(s3, coverage, c)
            IN IF ~Has(c, "overrides")
               THEN Thrown(Put(acc.usages, id, [u EXCEPT !.severity = s1]),
                           acc.totalCovered, acc.totalCount)
               ELSE Loop(Put(acc.usages, id, [u EXCEPT !.severity = s4]),
                         Plus(acc.totalCovered, Times(MathMin(100, coverage), u.count)),
                         acc.totalCount + u.count)

\* for (const [id,u] of Object.entries(usages)): the iterations up to the end or a throw
RECURSIVE classifyAll(_, _, _, _, _)
classifyAll(acc, ks, i, an, c) ==
    IF i > Len(ks) \/ acc.threw THEN acc
    ELSE classifyAll(classifyOne(acc, ks[i], an, c), ks, i + 1, an, c)

\* The summary lists filtered by status (none, newly) instead of by severity
idsWithSeverity_ByStatus(us, ks, i, sev) ==
    LET wanted == IF sev = "error" THEN "none" ELSE "newly"
        Test(id) == us[id].status = wanted
    IN SelectSeq(ks, Test)

\* Object.values(usages).filter(u => u.severity === sev).map(u => u.id)
RECURSIVE idsWithSeverity(_, _, _, _)
idsWithSeverity(us, ks, i, sev) ==
    IF i > Len(ks) THEN << >>
    ELSE IF us[ks[i]].severity = sev
         THEN << us[ks[i]].id >> \o idsWithSeverity(us, ks, i + 1, sev)
         ELSE idsWithSeverity(us, ks, i + 1, sev)

\* An achieved coverage of 0 when nothing was counted
achievedOf_ZeroForNothing(covered, count) ==
    IF count # 0 THEN (IF covered = NaN THEN NaN ELSE MathRound(covered, count)) ELSE 0

\* totalCount ? Math.round(totalCovered / totalCount) : 100; NaN for a total of NaN
achievedOf(covered, count) ==
    IF count # 0 THEN (IF covered = NaN THEN NaN ELSE MathRound(covered, count)) ELSE 100

assemble(us, ks, covered, count, c) ==
    LET achieved == achievedOf(covered, count)
        violations == idsWithSeverity(us, ks, 1, "error")
        warnings == idsWithSeverity(us, ks, 1, "warn")
    IN [ features |-> us, order |-> ks,
         summary |->
            IF Has(c, "coverageBudget")
            THEN [ violations |-> violations, warnings |-> warnings,
                   pass |-> (Len(violations) = 0 /\ AtLeast(achieved, c.coverageBudget)),
                   coverageBudget |-> c.coverageBudget, achieved |-> achieved ]
            ELSE [ violations |-> violations, warnings |-> warnings,
                   pass |-> FALSE, achieved |-> achieved ] ]

renderHtml(r) ==
    [ violations |-> Len(r.summary.violations), warnings |-> Len(r.summary.warnings),
      achieved |-> r.summary.achieved,
      budget |-> IF Has(r.summary, "coverageBudget") THEN r.summary.coverageBudget
                 ELSE "undefined" ]

renderBadge(pass) == IF pass THEN "passing" ELSE "failing"

\* JSON.stringify(res, null, 2), as a reader of the file parses it: a number that is
\* NaN is written as null, which stands in the place of the number
JsonNull == 0 - 2000000
JsonNumber(x) == IF x = NaN \/ x = Infinity THEN JsonNull ELSE x
JSON_stringify(r) ==
    [ r EXCEPT !.features = [ id \in DOMAIN r.features |->
                                [r.features[id] EXCEPT !.coverage = JsonNumber(@)] ],
               !.summary.achieved = JsonNumber(@) ]

\* The three writeFileSync calls under outDir
writeReport(r) ==
    [ n \in {"report.json", "index.html", "badge.svg"} |->
        CASE n = "report.json" -> [json |-> JSON_stringify(r)]
          [] n = "index.html" -> [html |-> renderHtml(r)]
          [] n = "badge.svg" -> [svg |-> renderBadge(r.summary.pass)] ]

\* ---------------------------------------------------------------- the scan
\* Before the first call of scanProject: nothing loaded, collected, computed or written
Fresh ==
    /\ pc = "start"
    /\ cfg = Null
    /\ analytics = EmptyMap
    /\ usages = EmptyMap
    /\ keys = << >>
    /\ files = << >>
    /\ idx = 1
    /\ totalCovered = 0
    /\ totalCount = 0
    /\ res = Null
    /\ readLog = {}
    /\ disk = EmptyMap
    /\ scanNo = 1
    /\ prev = Null

\* Inputs of a scan: every tree with a configuration without overrides or with omitted
\* fields, and every configuration on the two policy trees.  The audience file is read
\* only at the path a configuration file names
InitScan ==
    /\ FEATURES = FeatureTable
    /\ \/ /\ srcDir \in {NoFile} \cup {File(d) : d \in Dirs}
          /\ rc \in {NoFile} \cup {File(c) : c \in PlainConfigs \cup PartialConfigs}
       \/ /\ srcDir \in {File(d) : d \in PolicyDirs}
          /\ rc \in {File(c) : c \in AllConfigs}
    /\ csv \in {NoFile} \cup {File(f) : f \in CsvFiles}
    /\ (~rc.exists => ~csv.exists)
    /\ (rc.exists /\ ~Has(rc.content, "analyticsCsv")) => ~csv.exists
    /\ outDir \in OutDirs
    /\ Fresh
    /\ probe = Null
    /\ exitCode = NoExit
    /\ lint = Null
    /\ advise = Null

\* scanProject of the engine, called directly
Init == core = EngineModule /\ InitScan

\* A usages object that outlives the call (module-level state)
keptUsages == [usages |-> usages, keys |-> keys]

\* const usages = {}: a fresh object in every call, without keys
newUsages == [usages |-> EmptyMap, keys |-> << >>]

\* const cfg, analytics, usages, files: the walk throws on a missing root
Start ==
    /\ pc = "start"
    /\ LET c == loadConfig(rc)
           w == walk(srcDir)
       IN /\ cfg' = c
          /\ analytics' = parseAnalyticsCsv(Has(c, "analyticsCsv"), csv)
          /\ usages' = newUsages.usages
          /\ keys' = newUsages.keys
          /\ files' = w.files
          /\ idx' = 1
          /\ pc' = IF w.threw THEN "failed" ELSE "extract"
    /\ UNCHANGED << inputs, callers, totalCovered, totalCount, res, readLog, disk, scanNo, prev >>

\* One iteration of for (const file of files): a parser's throw rejects the scan
ExtractFile ==
    /\ pc = "extract"
    /\ idx <= Len(files)
    /\ LET file == files[idx]
           st == extractFile(usages, keys, file)
       IN /\ readLog' = readLog \cup {file}
          /\ usages' = st.usages
          /\ keys' = st.keys
          /\ IF st.threw
             THEN pc' = "failed" /\ idx' = idx
             ELSE pc' = "extract" /\ idx' = idx + 1
    /\ UNCHANGED << inputs, callers, cfg, analytics, files, totalCovered, totalCount, res, disk,
                    scanNo, prev >>

\* finalize coverage & severities: the loop over Object.entries(usages); a TypeError in
\* it rejects the scan with the usages object partly written
Classify ==
    /\ pc = "extract"
    /\ idx > Len(files)
    /\ LET acc == classifyAll(Loop(usages, 0, 0), keys, 1, analytics, cfg)
       IN /\ usages' = acc.usages
          /\ totalCovered' = acc.totalCovered
          /\ totalCount' = acc.totalCount
          /\ pc' = IF acc.threw THEN "failed" ELSE "classified"
    /\ UNCHANGED << inputs, callers, cfg, analytics, keys, files, idx, res, readLog, disk,
                    scanNo, prev >>

\* achieved, violations, warnings, res
Assemble ==
    /\ pc = "classified"
    /\ res' = assemble(usages, keys, totalCovered, totalCount, cfg)
    /\ pc' = "assembled"
    /\ UNCHANGED << inputs, callers, cfg, analytics, usages, keys, files, idx, totalCovered,
                    totalCount, readLog, disk, scanNo, prev >>

\* fs.mkdirSync(dir, { recursive: true }): a directory made inside the scanned tree is a
\* new entry of it, at the place the file system's enumeration gives it
mkdirSync(tree, dir) ==
    IF dir # InsideDir \/ (\E i \in 1..Len(tree.content) : tree.content[i] = InsideDir)
    THEN {tree}
    ELSE { File(SubSeq(tree.content, 1, k) \o << InsideDir >>
                \o SubSeq(tree.content, k + 1, Len(tree.content))) :
           k \in 0..Len(tree.content) }

\* if (opts.outDir) make the directory and write the report files; return res
Finish ==
    /\ pc = "assembled"
    /\ IF outDir # NoDir
       THEN /\ srcDir' \in mkdirSync(srcDir, outDir)
            /\ disk' = [n \in DOMAIN disk \cup DOMAIN writeReport(res) |->
                          IF n \in DOMAIN writeReport(res) THEN writeReport(res)[n] ELSE disk[n]]
       ELSE UNCHANGED << srcDir, disk >>
    /\ pc' = "done"
    /\ UNCHANGED << FEATURES, core, rc, csv, outDir, callers, cfg, analytics, usages, keys, files, idx,
                    totalCovered, totalCount, res, readLog, scanNo, prev >>

Next == Start \/ ExtractFile \/ Classify \/ Assemble \/ Finish

Spec == Init /\ [][Next]_vars

\* A second call of scanProject by the same process with the same arguments: a new call
\* frame (no cfg, files, totals or res yet); the file system keeps what the first call
\* wrote, and a report directory inside srcDir is part of the tree the second call walks
Rescan ==
    /\ pc \in {"done", "failed"}
    /\ scanNo = 1
    /\ prev' = [pc |-> pc, res |-> res, disk |-> disk]
    /\ scanNo' = 2
    /\ pc' = "start"
    /\ cfg' = Null
    /\ analytics' = EmptyMap
    /\ files' = << >>
    /\ idx' = 1
    /\ totalCovered' = 0
    /\ totalCount' = 0
    /\ res' = Null
    /\ UNCHANGED << inputs, callers, usages, keys, readLog, disk >>

NextTwice == Next \/ Rescan

SpecTwice == Init /\ [][NextTwice]_vars

\* ---------------------------------------------------------------- the same files in another order
\* The orders in which readdirSync can hand out the entries of a directory
Orders(q) ==
    {r \in [1..Len(q) -> {q[i] : i \in 1..Len(q)}] : \A i, j \in 1..Len(q) : i # j => r[i] # r[j]}

InitReorder ==
    /\ FEATURES = FeatureTable
    /\ core = EngineModule
    /\ srcDir \in {File(d) : d \in Dirs}
    /\ rc \in {NoFile} \cup {File(c) : c \in {k \in PlainConfigs : k.coverageBudget \in {0, 70}}}
    /\ csv \in {NoFile, File(<< Row("ua", "share"), Row("chrome", "70"), Row("firefox", "30") >>)}
    /\ (~rc.exists => ~csv.exists)
    /\ outDir = NoDir
    /\ Fresh
    /\ probe = Null
    /\ exitCode = NoExit
    /\ lint = Null
    /\ advise = Null

\* A second scan of the same directory, configuration and audience data, for which
\* fs.readdirSync (line 93) enumerates the same entries in another order
Reorder ==
    /\ pc \in {"done", "failed"}
    /\ scanNo = 1
    /\ \E q \in Orders(srcDir.content) :
          /\ q # srcDir.content
          /\ srcDir' = File(q)
    /\ prev' = [pc |-> pc, res |-> res, files |-> files]
    /\ scanNo' = 2
    /\ pc' = "start"
    /\ cfg' = Null
    /\ analytics' = EmptyMap
    /\ files' = << >>
    /\ idx' = 1
    /\ totalCovered' = 0
    /\ totalCount' = 0
    /\ res' = Null
    /\ UNCHANGED << FEATURES, core, rc, csv, outDir, callers, usages, keys, readLog, disk >>

NextReorder == Next \/ Reorder

SpecReorder == InitReorder /\ [][NextReorder]_vars

\* ---------------------------------------------------------------- the same scan under a higher budget
InitBudget ==
    /\ FEATURES = FeatureTable
    /\ core = EngineModule
    /\ srcDir \in {File(d) : d \in PolicyDirs}
    /\ rc \in {File(c) : c \in AllConfigs}
    /\ csv \in {NoFile} \cup {File(f) : f \in CsvFiles}
    /\ outDir = NoDir
    /\ Fresh
    /\ probe = Null
    /\ exitCode = NoExit
    /\ lint = Null
    /\ advise = Null

\* A second scan of the same tree and audience data under a configuration that differs
\* only in a higher coverageBudget
RaiseBudget ==
    /\ pc = "done"
    /\ scanNo = 1
    /\ \E b \in Budgets :
          /\ b > rc.content.coverageBudget
          /\ rc' = File([rc.content EXCEPT !.coverageBudget = b])
    /\ prev' = [pc |-> pc, res |-> res, cfg |-> cfg]
    /\ scanNo' = 2
    /\ pc' = "start"
    /\ cfg' = Null
    /\ analytics' = EmptyMap
    /\ files' = << >>
    /\ idx' = 1
    /\ totalCovered' = 0
    /\ totalCount' = 0
    /\ res' = Null
    /\ UNCHANGED << FEATURES, core, srcDir, csv, outDir, callers, usages, keys, readLog, disk >>

NextBudget == Next \/ RaiseBudget

SpecBudget == InitBudget /\ [][NextBudget]_vars

\* ---------------------------------------------------------------- configurations with omitted fields
InitPartial ==
    /\ FEATURES = FeatureTable
    /\ core = EngineModule
    /\ srcDir \in {File(d) : d \in Dirs}
    /\ rc \in {File(c) : c \in PartialConfigs}
    /\ csv = NoFile
    /\ outDir \in OutDirs
    /\ Fresh
    /\ probe = Null
    /\ exitCode = NoExit
    /\ lint = Null
    /\ advise = Null

SpecPartial == InitPartial /\ [][Next]_vars

\* ---------------------------------------------------------------- the sample application
\* A features.json with the two features of the sample script, in every status
SampleIds == {"view-transitions", "clipboard-api"}
SampleTables ==
    { [ f \in SampleIds |->
          IF f = "view-transitions"
          THEN [id |-> f, status |-> s1, browsers |-> {"chrome"}]
          ELSE [id |-> f, status |-> s2, browsers |-> {"chrome", "firefox", "safari"}] ] :
      s1 \in Statuses, s2 \in Statuses }

\* .flightdeckrc.json files of the sample application
SampleConfigs ==
    { Config(b, n, ig, ov) :
        b \in Budgets, n \in BOOLEAN, ig \in {{}} \cup {{f} : f \in SampleIds},
        ov \in {EmptyMap} \cup {[x \in {f} |-> e] : f \in SampleIds, e \in OverrideEntries} }

InitSample ==
    /\ FEATURES \in SampleTables
    /\ core = EngineModule
    /\ srcDir = File(<< "main.js" >>)
    /\ rc \in {NoFile} \cup {File(c) : c \in SampleConfigs}
    /\ csv \in {NoFile, File(<< Row("ua", "share"), Row("chrome", "70"), Row("firefox", "30") >>)}
    /\ (~rc.exists => ~csv.exists)
    /\ outDir = NoDir
    /\ Fresh
    /\ probe = Null
    /\ exitCode = NoExit
    /\ lint = Null
    /\ advise = Null

SpecSample == InitSample /\ [][Next]_vars

\* ---------------------------------------------------------------- the scanner of packages/core
\* src/packages/core/src/index.ts, the file at the path of the package @flightdeck/core:
\* a scanProject without configuration and severities, whose result lists the ids by
\* status.  Its feature table (data/baseline-features.min.json) is FEATURES here.
JS_ALIASES ==
    [ t \in { "navigator.clipboard", "document.startViewTransition", "HTMLDialogElement",
              "Element.prototype.togglePopover" } |->
        CASE t = "navigator.clipboard" -> "clipboard-api"
          [] t = "document.startViewTransition" -> "view-transitions"
          [] t = "HTMLDialogElement" -> "dialog-element"
          [] t = "Element.prototype.togglePopover" -> "popover-attribute" ]

CSS_ALIASES ==
    [ t \in {":has", "dialog", "popover"} |->
        CASE t = ":has" -> "selector-has"
          [] t = "dialog" -> "dialog-element"
          [] t = "popover" -> "popover-attribute" ]

HTML_ALIASES ==
    [ t \in {"dialog", "popovertarget", "fetchpriority"} |->
        CASE t = "dialog" -> "dialog-element"
          [] t = "popovertarget" -> "popover-attribute"
          [] t = "fetchpriority" -> "fetch-priority-attribute" ]

\* The callee names of the new-expressions of the scripts, which this scanner's
\* NewExpression visitor looks up besides the member expressions and identifiers
NewCallees ==
    [ e \in {"app.js"} |-> << "HTMLDialogElement" >> ]

\* ua.trim() of the browser names of the audience files
Trim(ua) ==
    CASE ua = "Chrome " -> "Chrome"
      [] ua = " Firefox" -> "Firefox"
      [] OTHER -> ua

\* for (const line of rows.slice(1)): if (ua && !Number.isNaN(s)) out[ua.trim()] = s
RECURSIVE core_parseRows(_, _, _)
core_parseRows(rows, i, out) ==
    IF i > Len(rows) THEN out
    ELSE IF i = 1 THEN core_parseRows(rows, i + 1, out)
    ELSE IF rows[i].ua # "" /\ rows[i].share \in DOMAIN NumberOf
         THEN core_parseRows(rows, i + 1, Put(out, Trim(rows[i].ua), NumberOf[rows[i].share]))
         ELSE core_parseRows(rows, i + 1, out)

\* opts.analyticsCsv: absent, or the file at that path
core_parseAnalyticsCsv(opts) ==
    IF ~Has(opts, "analyticsCsv") \/ ~opts.analyticsCsv.exists THEN EmptyMap
    ELSE core_parseRows(opts.analyticsCsv.content, 1, EmptyMap)

core_estimateCoverage(min, an, opts) ==
    IF DOMAIN an # {}
    THEN LET sum == SumOver(an, DOMAIN an)
             covered == SumOver(an, DOMAIN an \cap min)
         IN IF sum # 0 /\ sum # NaN THEN RoundPercent(covered, sum) ELSE 0
    ELSE LET selected == browserslist(IF Has(opts, "browserslistQuery")
                                      THEN opts.browserslistQuery ELSE ">0.5%, not dead")
             seen == {selected[i].name : i \in 1..Len(selected)}
             have == Cardinality(seen \cap min)
         IN IF seen # {} THEN RoundPercent(have, Cardinality(seen)) ELSE 0

core_walk(dir) == walk(dir)

\* const result = { features: {}, violations: [], warnings: [] }; order: the insertion
\* order of the keys of features
core_Result(features, order, violations, warnings) ==
    [features |-> features, order |-> order, violations |-> violations, warnings |-> warnings]

\* function record(id, file)
core_record(result, table, id, file) ==
    IF id \notin DOMAIN table THEN result
    ELSE LET f == table[id]
             bucket == IF id \in DOMAIN result.features THEN result.features[id]
                       ELSE [ count |-> 0, status |-> f.status, coverage |-> 0,
                              browsers |-> f.browsers, sampleFiles |-> << >> ]
             filled == [bucket EXCEPT !.count = @ + 1,
                                      !.sampleFiles = IF Len(@) < 5 THEN Append(@, file) ELSE @]
         IN core_Result(Put(result.features, id, filled),
                        IF id \in DOMAIN result.features THEN result.order
                        ELSE Append(result.order, id),
                        result.violations, result.warnings)

\* The visitors of one file: every visited name that is a key of aliases is recorded
RECURSIVE core_visits(_, _, _, _, _, _)
core_visits(result, table, aliases, file, tokens, i) ==
    IF i > Len(tokens) THEN result
    ELSE IF tokens[i] \notin DOMAIN aliases
         THEN core_visits(result, table, aliases, file, tokens, i + 1)
         ELSE core_visits(core_record(result, table, aliases[tokens[i]], file),
                          table, aliases, file, tokens, i + 1)

\* The names one file hands to the visitors: for a script the member expressions and
\* identifiers, then the callees of its new-expressions
core_tokens(file) ==
    LET own == [i \in 1..Len(Entries[file].visits) |-> Entries[file].visits[i].token]
    IN IF file \in DOMAIN NewCallees THEN own \o NewCallees[file] ELSE own

\* The body of the loop over files: babel.parse throws on a script it cannot parse
core_extractFile(result, table, file) ==
    LET e == Entries[file] IN
    IF e.kind = "script"
    THEN IF ~e.parses THEN [threw |-> TRUE, result |-> result]
         ELSE [threw |-> FALSE,
               result |-> core_visits(result, table, JS_ALIASES, file, core_tokens(file), 1)]
    ELSE IF e.kind = "style"
    THEN [threw |-> FALSE,
          result |-> core_visits(result, table, CSS_ALIASES, file, core_tokens(file), 1)]
    ELSE [threw |-> FALSE,
          result |-> core_visits(result, table, HTML_ALIASES, file, core_tokens(file), 1)]

RECURSIVE core_extractAll(_, _, _, _)
core_extractAll(st, table, fs, i) ==
    IF i > Len(fs) \/ st.threw THEN st
    ELSE LET x == core_extractFile(st.result, table, fs[i])
         IN core_extractAll([threw |-> x.threw, result |-> x.result,
                             read |-> st.read \cup {fs[i]}], table, fs, i + 1)

\* finalize coverage + violations/warnings, over Object.entries(result.features)
RECURSIVE core_finalize(_, _, _, _, _)
core_finalize(result, table, an, opts, i) ==
    IF i > Len(result.order) THEN result
    ELSE LET id == result.order[i]
             f == result.features[id]
             coverage == core_estimateCoverage(table[id].browsers, an, opts)
             features == Put(result.features, id, [f EXCEPT !.coverage = coverage])
         IN core_finalize(
                core_Result(features, result.order,
                            IF f.status = "none" THEN Append(result.violations, id)
                            ELSE result.violations,
                            IF f.status = "newly" THEN Append(result.warnings, id)
                            ELSE result.warnings),
                table, an, opts, i + 1)

\* The page of this scanner: the two lengths and one table row per feature with at most
\* two of its sample files
core_renderHtml(r) ==
    [ violations |-> Len(r.violations), warnings |-> Len(r.warnings),
      rows |-> [ i \in 1..Len(r.order) |->
                   LET f == r.features[r.order[i]]
                   IN [ id |-> r.order[i], status |-> f.status, coverage |-> f.coverage,
                        browsers |-> f.browsers,
                        files |-> SubSeq(f.sampleFiles, 1, MathMin(2, Len(f.sampleFiles))) ] ] ]

\* scanProject(opts) of packages/core: opts has srcDir and, optionally, analyticsCsv,
\* browserslistQuery and outDir.  read: the files read; writes: the files written under
\* opts.outDir
core_scanProject(table, opts) ==
    LET an == core_parseAnalyticsCsv(opts)
        w == core_walk(opts.srcDir)
        st == core_extractAll([threw |-> FALSE, result |-> core_Result(EmptyMap, << >>, << >>, << >>),
                               read |-> {}], table, w.files, 1)
        result == core_finalize(st.result, table, an, opts, 1)
    IN IF w.threw THEN [threw |-> TRUE, files |-> << >>, read |-> {}, writes |-> EmptyMap]
       ELSE IF st.threw
       THEN [threw |-> TRUE, files |-> w.files, read |-> st.read, writes |-> EmptyMap]
       ELSE [ threw |-> FALSE, files |-> w.files, read |-> st.read, result |-> result,
              writes |-> IF Has(opts, "outDir")
                         THEN [ n \in {"report.json", "index.html"} |->
                                  IF n = "report.json" THEN [json |-> result]
                                  ELSE [html |-> core_renderHtml(result)] ]
                         ELSE EmptyMap ]

\* The options the CLI hands to scanProject: { srcDir, outDir, config: undefined }, of
\* which this scanner reads srcDir and outDir (undefined without --report)
coreOpts ==
    IF outDir = NoDir THEN [srcDir |-> srcDir] ELSE [srcDir |-> srcDir, outDir |-> outDir]

\* One call of the scanProject of packages/core, from its entry to its return or throw:
\* no configuration is loaded; with opts.outDir the directory is made and report.json
\* and index.html are written
coreCall(opts) ==
    /\ pc = "start"
    /\ LET r == core_scanProject(FEATURES, opts)
       IN /\ pc' = IF r.threw THEN "failed" ELSE "done"
          /\ res' = IF r.threw THEN Null ELSE r.result
          /\ files' = r.files
          /\ readLog' = readLog \cup r.read
          /\ IF DOMAIN r.writes # {}
             THEN /\ srcDir' \in mkdirSync(srcDir, opts.outDir)
                  /\ disk' = [n \in DOMAIN disk \cup DOMAIN r.writes |->
                                IF n \in DOMAIN r.writes THEN r.writes[n] ELSE disk[n]]
             ELSE UNCHANGED << srcDir, disk >>
    /\ UNCHANGED << FEATURES, core, rc, csv, outDir, callers, cfg, analytics, usages, keys, idx,
                    totalCovered, totalCount, scanNo, prev >>

\* ---------------------------------------------------------------- the CLI scan command
\* An exit status taken from summary.pass
exitStatus_ByPass(r) ==
    IF r.summary.pass THEN 0
    ELSE IF Len(r.summary.violations) # 0 THEN 2 ELSE 1

\* if (violations.length) exit(2); if (warnings.length) exit(1); exit(0)
exitStatus(r) ==
    IF Len(r.summary.violations) # 0 THEN 2
    ELSE IF Len(r.summary.warnings) # 0 THEN 1
    ELSE 0

\* if (!fs.existsSync(srcDir)) process.exit(2)
CliNotFound ==
    /\ pc = "start"
    /\ exitCode = NoExit
    /\ ~srcDir.exists
    /\ exitCode' = 2
    /\ pc' = "exited"
    /\ UNCHANGED << inputs, probe, lint, advise, cfg, analytics, usages, keys, files, idx, totalCovered,
                    totalCount, res, readLog, disk, scanNo, prev >>

\* await scanProject({ srcDir, outDir, config: undefined }): a rejection leaves the
\* action without reaching a process.exit call
CliScan == srcDir.exists /\ core = EngineModule /\ Next

\* The same call when the build links packages/core
CliCoreScan == srcDir.exists /\ core = PackageModule /\ coreCall(coreOpts)

\* The three process.exit calls after the summary is printed.  res.summary.violations
\* (line 26) throws a TypeError on a result without summary: the action is left without
\* a process.exit call
CliExit ==
    /\ pc = "done"
    /\ exitCode = NoExit
    /\ Has(res, "summary")
    /\ exitCode' = exitStatus(res)
    /\ pc' = "exited"
    /\ UNCHANGED << inputs, probe, lint, advise, cfg, analytics, usages, keys, files, idx, totalCovered,
                    totalCount, res, readLog, disk, scanNo, prev >>

NextCli == CliNotFound \/ CliScan \/ CliCoreScan \/ CliExit

\* The scan command in either build
InitCli == core \in Cores /\ InitScan

SpecCli == InitCli /\ [][NextCli]_vars

\* ---------------------------------------------------------------- the CLI advise command
\* String(u.status).toUpperCase()
ToUpperCase(status) ==
    CASE status = "widely" -> "WIDELY"
      [] status = "newly" -> "NEWLY"
      [] status = "none" -> "NONE"

\* const sev = (s) => s === "error" ? 2 : s === "warn" ? 1 : 0
sevNumber(s) == IF s = "error" THEN 2 ELSE IF s = "warn" THEN 1 ELSE 0

\* The comparator of the sort: by severity, then by count, both descending
compareItems(a, b) ==
    IF sevNumber(b.severity) - sevNumber(a.severity) # 0
    THEN sevNumber(b.severity) - sevNumber(a.severity)
    ELSE b.count - a.count

\* Array.prototype.sort is stable: an item goes behind every item that does not sort
\* after it
RECURSIVE insertItem(_, _)
insertItem(q, x) ==
    IF q = << >> THEN << x >>
    ELSE IF compareItems(Head(q), x) <= 0 THEN << Head(q) >> \o insertItem(Tail(q), x)
    ELSE << x >> \o q

RECURSIVE sortItems(_, _, _)
sortItems(r, i, q) ==
    IF i > Len(r.order) THEN q
    ELSE sortItems(r, i + 1, insertItem(q, r.features[r.order[i]]))

\* renderHits(hits.slice(0, 10))
renderHits(hits) ==
    IF Len(hits) = 0 THEN [text |-> "_No direct hits captured._"]
    ELSE [ rows |-> [ i \in 1..MathMin(10, Len(hits)) |->
                        [file |-> hits[i].file, line |-> hits[i].line,
                         snippet |-> hits[i].snippet] ] ]

\* renderRemediation(id): the heading of the advice text
renderRemediation(id) ==
    CASE id = "selector-has" -> "**CSS :has()**"
      [] id = "view-transitions" -> "**View Transitions API**"
      [] id = "popover-attribute" -> "**Popover**"
      [] id = "dialog-element" -> "**<dialog>**"
      [] id = "clipboard-api" -> "**Clipboard API**"
      [] OTHER -> "_Use progressive enhancement_"

\* renderAdvice(res): the summary lines and one section per feature, in sorted order
renderAdvice(r) ==
    LET items == sortItems(r, 1, << >>)
    IN [ achieved |-> r.summary.achieved,
         budget |-> IF Has(r.summary, "coverageBudget") THEN r.summary.coverageBudget
                    ELSE "undefined",
         violations |-> Len(r.summary.violations),
         warnings |-> Len(r.summary.warnings),
         items |-> [ i \in 1..Len(items) |->
                       [ id |-> items[i].id, status |-> ToUpperCase(items[i].status),
                         coverage |-> items[i].coverage,
                         severity |-> IF items[i].severity = "error" THEN " error"
                                      ELSE IF items[i].severity = "warn" THEN " warn"
                                      ELSE "? info",
                         remediation |-> renderRemediation(items[i].id),
                         hits |-> renderHits(items[i].hits) ] ] ]

\* .flightdeckrc.json files of the advised trees
AdviseConfigs == { Config(b, FALSE, {}, EmptyMap) : b \in {70, 95} }

\* advise --src <path> [--report <outDir>] [--write]: the report directory is always
\* set, by default path.join(srcDir, ".baseline")
InitAdvise ==
    /\ FEATURES = FeatureTable
    /\ core \in Cores
    /\ srcDir \in {NoFile} \cup {File(d) : d \in Dirs}
    /\ rc \in {NoFile} \cup {File(c) : c \in AdviseConfigs}
    /\ csv = NoFile
    /\ outDir \in {OutsideDir, InsideDir}
    /\ Fresh
    /\ probe = Null
    /\ exitCode = NoExit
    /\ lint = Null
    /\ \E w \in BOOLEAN :
          advise = [at |-> "start", write |-> w, result |-> Null, printed |-> Null, run |-> 1]

\* if (!fs.existsSync(srcDir)) process.exit(2)
AdviseNotFound ==
    /\ advise.at = "start"
    /\ ~srcDir.exists
    /\ exitCode' = 2
    /\ advise' = [advise EXCEPT !.at = "exited"]
    /\ UNCHANGED << inputs, probe, lint, pc, cfg, analytics, usages, keys, files, idx,
                    totalCovered, totalCount, res, readLog, disk, scanNo, prev >>

\* if (fs.existsSync(jsonPath)) result = JSON.parse(...): no scan
AdviseRead ==
    /\ advise.at = "start"
    /\ srcDir.exists
    /\ "report.json" \in DOMAIN disk
    /\ advise' = [advise EXCEPT !.at = "render", !.result = disk["report.json"].json]
    /\ UNCHANGED << inputs, probe, exitCode, lint, pc, cfg, analytics, usages, keys, files, idx,
                    totalCovered, totalCount, res, readLog, disk, scanNo, prev >>

\* else: scanProject({ srcDir, outDir, config: undefined }) is called
AdviseCall ==
    /\ advise.at = "start"
    /\ srcDir.exists
    /\ "report.json" \notin DOMAIN disk
    /\ advise' = [advise EXCEPT !.at = "scan"]
    /\ UNCHANGED << inputs, probe, exitCode, lint, pc, cfg, analytics, usages, keys, files, idx,
                    totalCovered, totalCount, res, readLog, disk, scanNo, prev >>

\* The steps of that scan; a rejection leaves the action
AdviseScan == advise.at = "scan" /\ core = EngineModule /\ Next

\* The same call when the build links packages/core
AdviseCoreScan == advise.at = "scan" /\ core = PackageModule /\ coreCall(coreOpts)

\* result = await scanProject(...)
AdviseReturn ==
    /\ advise.at = "scan"
    /\ pc = "done"
    /\ advise' = [advise EXCEPT !.at = "render", !.result = res]
    /\ UNCHANGED << inputs, probe, exitCode, lint, pc, cfg, analytics, usages, keys, files, idx,
                    totalCovered, totalCount, res, readLog, disk, scanNo, prev >>

\* const md = renderAdvice(result); with --write it goes to suggestions.md in the report
\* directory, else to the console.  No process.exit call follows.  On a result without
\* summary res.summary.achieved (line 73) throws a TypeError: nothing is printed or written
AdviseWrite ==
    /\ advise.at = "render"
    /\ LET md == renderAdvice(advise.result)
       IN IF ~Has(advise.result, "summary")
          THEN /\ advise' = [advise EXCEPT !.at = "crashed"]
               /\ UNCHANGED << srcDir, disk >>
          ELSE IF advise.write
          THEN /\ srcDir' \in mkdirSync(srcDir, outDir)
               /\ disk' = Put(disk, "suggestions.md", [md |-> md])
               /\ advise' = [advise EXCEPT !.at = "done"]
          ELSE /\ advise' = [advise EXCEPT !.at = "done", !.printed = md]
               /\ UNCHANGED << srcDir, disk >>
    /\ UNCHANGED << FEATURES, core, rc, csv, outDir, probe, exitCode, lint, pc, cfg, analytics, usages,
                    keys, files, idx, totalCovered, totalCount, res, readLog, scanNo, prev >>

\* The command is run a second time, as a new process, on what the first run left
AdviseAgain ==
    /\ advise.at \in {"done", "crashed"}
    /\ advise.run = 1
    /\ advise' = [advise EXCEPT !.at = "start", !.run = 2, !.result = Null, !.printed = Null]
    /\ pc' = "start"
    /\ cfg' = Null
    /\ analytics' = EmptyMap
    /\ usages' = EmptyMap
    /\ keys' = << >>
    /\ files' = << >>
    /\ idx' = 1
    /\ totalCovered' = 0
    /\ totalCount' = 0
    /\ res' = Null
    /\ UNCHANGED << inputs, probe, exitCode, lint, readLog, disk, scanNo, prev >>

NextAdvise ==
    \/ AdviseNotFound
    \/ AdviseRead
    \/ AdviseCall
    \/ AdviseScan
    \/ AdviseCoreScan
    \/ AdviseReturn
    \/ AdviseWrite
    \/ AdviseAgain

SpecAdvise == InitAdvise /\ [][NextAdvise]_vars

\* ---------------------------------------------------------------- the lint rule
\* The Program calls made on one rule instance (one closure of create)
Calls == {1, 2}

\* new Set(res.violations): the iterable is the top-level property `violations` of the
\* result, which the result of packages/core has and the ScanResult of part_000 has not
\* (its ids are in res.summary.violations); new Set(undefined) is the empty set
cacheOf(r) == IF Has(r, "violations") THEN {r.violations[i] : i \in 1..Len(r.violations)} ELSE {}

\* if (cache.size) context.report(...)
reportsFor(cache) == IF cache # {} THEN 1 ELSE 0

\* create(context): let cache = null (later [set |-> the Set]); no Program call yet
InitLint ==
    /\ FEATURES = FeatureTable
    /\ core \in Cores
    /\ srcDir \in {File(d) : d \in Dirs}
    /\ rc = NoFile
    /\ csv = NoFile
    /\ outDir = NoDir
    /\ Fresh
    /\ probe = Null
    /\ exitCode = NoExit
    /\ lint = [ cache |-> Null, started |-> 0, running |-> 0, reports |-> 0,
                call |-> [h \in Calls |-> "idle"], settled |-> [h \in Calls |-> Null] ]
    /\ advise = Null

\* Program is entered while no other JavaScript runs.  if (!cache): scanProject is
\* called and runs in the caller's turn up to its return; else the cached set is used
ProgramEnter(h) ==
    /\ lint.running = 0
    /\ lint.call[h] = "idle"
    /\ IF lint.cache = Null
       THEN /\ lint' = [lint EXCEPT !.started = @ + 1, !.running = h, !.call[h] = "scanning"]
            /\ pc' = "start"
            /\ cfg' = Null
            /\ analytics' = EmptyMap
            /\ files' = << >>
            /\ idx' = 1
            /\ totalCovered' = 0
            /\ totalCount' = 0
            /\ res' = Null
       ELSE /\ lint' = [lint EXCEPT !.call[h] = "done",
                                     !.reports = @ + reportsFor(lint.cache.set)]
            /\ UNCHANGED << pc, cfg, analytics, files, idx, totalCovered, totalCount, res >>
    /\ UNCHANGED << inputs, probe, exitCode, advise, usages, keys, readLog, disk, scanNo, prev >>

\* The body of scanProject has no await: its steps run before anything else does
LintScan == lint.running # 0 /\ core = EngineModule /\ Next

\* The same call when the module is packages/core: scanProject({ srcDir: cwd }) runs to
\* its return or its throw
CoreScan == lint.running # 0 /\ core = PackageModule /\ coreCall([srcDir |-> srcDir])

\* scanProject returns its promise, fulfilled with res or rejected; the handler is
\* suspended at its await and the caller's turn goes on
ScanSettled(h) ==
    /\ lint.running = h
    /\ pc \in {"done", "failed"}
    /\ lint' = [lint EXCEPT !.running = 0, !.call[h] = "awaiting",
                            !.settled[h] = IF pc = "done" THEN [res |-> res]
                                           ELSE [rejected |-> TRUE]]
    /\ UNCHANGED << inputs, probe, exitCode, advise, pc, cfg, analytics, usages, keys, files, idx,
                    totalCovered, totalCount, res, readLog, disk, scanNo, prev >>

\* The continuation after the await, as a later job: cache = new Set(res.violations) and
\* the report; a rejected scan rejects the handler and leaves cache as it is
ProgramResume(h) ==
    /\ lint.running = 0
    /\ lint.call[h] = "awaiting"
    /\ IF Has(lint.settled[h], "rejected")
       THEN lint' = [lint EXCEPT !.call[h] = "rejected"]
       ELSE LET cache == cacheOf(lint.settled[h].res)
            IN lint' = [lint EXCEPT !.call[h] = "done", !.cache = [set |-> cache],
                                    !.reports = @ + reportsFor(cache)]
    /\ UNCHANGED << inputs, probe, exitCode, advise, pc, cfg, analytics, usages, keys, files, idx,
                    totalCovered, totalCount, res, readLog, disk, scanNo, prev >>

NextLint ==
    \/ \E h \in Calls : ProgramEnter(h)
    \/ LintScan
    \/ CoreScan
    \/ \E h \in Calls : ScanSettled(h)
    \/ \E h \in Calls : ProgramResume(h)

SpecLint == InitLint /\ [][NextLint]_vars

\* ---------------------------------------------------------------- the estimator on its own
\* Shares of a distribution handed to estimateCoverage, and the distributions over them
ShareValues == {0 - 50, 0, 17, 23, 30, 70}
Distributions == UNION {[D -> ShareValues] : D \in SUBSET Browsers}

\* cfg.browserslist of the call: the default query, an absent field, one browser, nobody
Queries ==
    { [browserslist |-> ">0.5%, not dead"], EmptyMap,
      [browserslist |-> "last 1 chrome version"], [browserslist |-> ">99%"] }

InitCoverage ==
    /\ FEATURES = FeatureTable
    /\ core = EngineModule
    /\ srcDir = NoFile
    /\ rc = NoFile
    /\ csv = NoFile
    /\ outDir = NoDir
    /\ Fresh
    /\ probe \in [ min : SUBSET Browsers, an : Distributions, c : Queries,
                    called : {FALSE}, out : {0} ]
    /\ exitCode = NoExit
    /\ lint = Null
    /\ advise = Null

\* estimateCoverage(min, analytics, cfg.browserslist)
Estimate ==
    /\ Has(probe, "called")
    /\ ~probe.called
    /\ probe' = [probe EXCEPT !.called = TRUE,
                              !.out = estimateCoverage(probe.min, probe.an, probe.c)]
    /\ UNCHANGED << inputs, exitCode, lint, advise, pc, cfg, analytics, usages, keys, files, idx,
                    totalCovered, totalCount, res, readLog, disk, scanNo, prev >>

NextCoverage == Estimate

SpecCoverage == InitCoverage /\ [][NextCoverage]_vars

\* ================================================================ claims
Returned == pc = "done"
ResultIds == DOMAIN res.features
OverrideOf(id) ==
    IF Has(cfg, "overrides") /\ id \in DOMAIN cfg.overrides THEN cfg.overrides[id] ELSE EmptyMap

\* The coverage is below, or at least, the coverageBudget of the configuration
BelowBudget(coverage) == Has(cfg, "coverageBudget") /\ Less(coverage, cfg.coverageBudget)
MeetsBudget(coverage) == Has(cfg, "coverageBudget") /\ AtLeast(coverage, cfg.coverageBudget)

\* C1 (as stated): every feature of the result with status none and not in ignore has
\* final severity error, whatever its overrides entry is.
C1_NoneIsErrorAlways ==
    Returned =>
        \A id \in ResultIds :
            (res.features[id].status = "none" /\ id \notin cfg.ignore)
                => res.features[id].severity = "error"

\* C1 (amended): every feature of the result with status none, not in ignore, and whose
\* overrides entry sets no severity other than error, has final severity error.
C1_NoneIsErrorUnlessOverridden ==
    Returned =>
        \A id \in ResultIds :
            ( /\ res.features[id].status = "none"
              /\ id \notin cfg.ignore
              /\ (Has(OverrideOf(id), "severity") => OverrideOf(id).severity = "error") )
                => res.features[id].severity = "error"

\* C1 witness: a returned none-status feature, not ignored, with an overrides entry that
\* sets only minCoverage, ends as error although its coverage meets the budget.
C1_Witness ==
    /\ Returned
    /\ \E id \in ResultIds :
          /\ res.features[id].status = "none"
          /\ id \notin cfg.ignore
          /\ id \in DOMAIN cfg.overrides
          /\ ~Has(cfg.overrides[id], "severity")
          /\ MeetsBudget(res.features[id].coverage)
          /\ res.features[id].severity = "error"

\* C2 (as stated): every feature of the result whose override has minCoverage = X and
\* whose coverage is below X has final severity error.
C2_BelowMinCoverageIsErrorAlways ==
    Returned =>
        \A id \in ResultIds :
            ( /\ Has(OverrideOf(id), "minCoverage")
              /\ Less(res.features[id].coverage, OverrideOf(id).minCoverage) )
                => res.features[id].severity = "error"

\* C2 (amended): every feature of the result that is not in ignore, whose override has a
\* non-zero minCoverage = X and whose coverage is below X, has final severity error, also
\* when the same override sets severity info or warn.
C2_BelowMinCoverageIsError ==
    Returned =>
        \A id \in ResultIds :
            ( /\ id \notin cfg.ignore
              /\ Has(OverrideOf(id), "minCoverage")
              /\ OverrideOf(id).minCoverage # 0
              /\ Less(res.features[id].coverage, OverrideOf(id).minCoverage) )
                => res.features[id].severity = "error"

\* C2 witness: an override with severity info and a minCoverage above the coverage, on a
\* feature that is not ignored and whose coverage meets the budget: error.
C2_Witness ==
    /\ Returned
    /\ \E id \in ResultIds :
          /\ id \notin cfg.ignore
          /\ Has(OverrideOf(id), "minCoverage")
          /\ Has(OverrideOf(id), "severity")
          /\ OverrideOf(id).severity = "info"
          /\ Less(res.features[id].coverage, OverrideOf(id).minCoverage)
          /\ MeetsBudget(res.features[id].coverage)
          /\ res.features[id].severity = "error"

\* C3: every feature of the result whose id is in ignore has final severity info.
C3_IgnoredIsInfo ==
    Returned =>
        \A id \in ResultIds : id \in cfg.ignore => res.features[id].severity = "info"

\* C3 witness: an ignored feature with status none, coverage below the budget and below
\* the minCoverage of its override, returned as info.
C3_Witness ==
    /\ Returned
    /\ \E id \in ResultIds :
          /\ id \in cfg.ignore
          /\ res.features[id].status = "none"
          /\ BelowBudget(res.features[id].coverage)
          /\ Has(OverrideOf(id), "minCoverage")
          /\ Less(res.features[id].coverage, OverrideOf(id).minCoverage)
          /\ res.features[id].severity = "info"

SeqRange(q) == {q[i] : i \in 1..Len(q)}

\* C4: in the assembled result, violations holds exactly the ids with severity error,
\* warnings exactly the ids with severity warn, and pass is true iff violations is empty
\* and achieved >= coverageBudget (a comparison that is false for an achieved value of
\* NaN and for a configuration without coverageBudget).
C4_SummaryMatchesFeatures ==
    pc \in {"assembled", "done"} =>
        /\ SeqRange(res.summary.violations)
              = {id \in ResultIds : res.features[id].severity = "error"}
        /\ SeqRange(res.summary.warnings)
              = {id \in ResultIds : res.features[id].severity = "warn"}
        /\ res.summary.pass
              <=> ( \A id \in ResultIds : res.features[id].severity # "error" )
                  /\ MeetsBudget(res.summary.achieved)

\* C4 witness: a returned result with a violation, a warning and an info feature.
C4_Witness ==
    /\ Returned
    /\ Len(res.summary.violations) > 0
    /\ Len(res.summary.warnings) > 0
    /\ \E id \in ResultIds : res.features[id].severity = "info"
    /\ ~res.summary.pass

\* The aggregate of the coverage formula over the feature ids S of the result
Weighted(S) ==
    SumOver([id \in S |-> Times(MathMin(100, res.features[id].coverage), res.features[id].count)],
            S)
Counted(S) == SumOver([id \in S |-> res.features[id].count], S)
ReferenceAchieved(S) ==
    IF Counted(S) = 0 THEN 100
    ELSE IF Weighted(S) = NaN THEN NaN
    ELSE MathRound(Weighted(S), Counted(S))

\* C5: achieved is the rounded count-weighted mean of min(100, coverage) over ALL
\* features of the result, those in ignore included, and 100 when there is no feature.
C5_AchievedOverAllFeatures ==
    pc \in {"assembled", "done"} => res.summary.achieved = ReferenceAchieved(ResultIds)

\* C6: the coverage of every feature and summary.achieved lie in [0, 100], for every
\* audience distribution the analytics parser accepts.
C6_CoverageInRange ==
    /\ pc \in {"classified", "assembled", "done"} =>
          \A id \in DOMAIN usages : usages[id].coverage \in 0..100
    /\ pc \in {"assembled", "done"} => res.summary.achieved \in 0..100

HitBefore(a, b) ==
    \/ PathRank[a.file] < PathRank[b.file]
    \/ PathRank[a.file] = PathRank[b.file] /\ a.line < b.line
    \/ PathRank[a.file] = PathRank[b.file] /\ a.line = b.line /\ a.column <= b.column

IsSortedHits(hits) == \A i \in 1..(Len(hits) - 1) : HitBefore(hits[i], hits[i + 1])

\* C7: in the returned and the persisted report every feature's hit list is sorted
\* ascending by (file path, line, column), whatever the enumeration order was.
C7_HitsSorted ==
    Returned =>
        /\ \A id \in ResultIds : IsSortedHits(res.features[id].hits)
        /\ outDir # NoDir => \A id \in ResultIds : IsSortedHits(disk["report.json"].json.features[id].hits)

\* C8: a second scan of the same unchanged tree with the same configuration and audience
\* data ends as the first did, with the same report (feature keys in the same order, hit
\* sequences, coverage, severity, summary) and the same files on disk; the report
\* directory the first scan left behind, also when it lies inside the tree and is walked
\* by the second scan, changes nothing.
C8_SecondScanIdentical ==
    (scanNo = 2 /\ pc \in {"done", "failed"}) =>
        /\ pc = prev.pc
        /\ res = prev.res
        /\ (pc = "done" => disk = prev.disk)

\* C8 witness: a second scan returned a report with features, hits, a violation and a
\* warning, after a first scan by the same process that wrote its report into the tree,
\* and has read the page of that report.
C8_Witness ==
    /\ scanNo = 2
    /\ Returned
    /\ outDir = InsideDir
    /\ ".baseline/index.html" \in readLog
    /\ Cardinality(ResultIds) >= 2
    /\ Len(res.summary.violations) > 0
    /\ Len(res.summary.warnings) > 0

\* C9: a failure on an individual file or directory entry never aborts the scan: with an
\* existing root, scanProject does not fail.
C9_EntryFailureNeverAborts ==
    pc = "failed" => ~srcDir.exists

\* C10: with a root that does not exist, scanProject fails, no source file has been read
\* and no report file has been written.
C10_MissingRootFailsFirst ==
    (~srcDir.exists /\ pc # "start") =>
        /\ pc = "failed"
        /\ readLog = {}
        /\ disk = EmptyMap

\* C10 witness: a scan of a missing root, asked to write a report, has failed.
C10_Witness ==
    /\ ~srcDir.exists
    /\ outDir # NoDir
    /\ pc = "failed"

\* ---------------------------------------------------------------- C11
\* The estimator of the specification; round is the nearest integer, a half rounding up
ReferenceCoverage(min, an, names) ==
    IF DOMAIN an # {}
    THEN LET total == SumOver(an, DOMAIN an)
             covered == SumOver(an, {b \in DOMAIN an : b \in min})
         IN IF total = 0 THEN 0 ELSE MathRound(100 * covered, total)
    ELSE IF names = {} THEN 0
         ELSE MathRound(100 * Cardinality({b \in names : b \in min}), Cardinality(names))

SelectedNames(c) ==
    LET selected == browserslist(IF Has(c, "browserslist") THEN c.browserslist
                                 ELSE ">0.5%, not dead")
    IN {selected[i].name : i \in 1..Len(selected)}

\* C11: for every minBrowserVersions, distribution and fallback query, estimateCoverage
\* returns round(100 * covered / total) (0 for a zero total) for a non-empty
\* distribution, and round(100 * names with a minimum version / distinct selected names)
\* (0 for an empty selection) for an empty one; chrome = 70, firefox = 30 with
\* minBrowserVersions {chrome} gives 70.
C11_EstimateIsReference ==
    (Has(probe, "called") /\ probe.called) =>
        /\ probe.out = ReferenceCoverage(probe.min, probe.an, SelectedNames(probe.c))
        /\ ( /\ probe.min = {"chrome"}
             /\ probe.an = [b \in {"chrome", "firefox"} |-> IF b = "chrome" THEN 70 ELSE 30] )
               => probe.out = 70

\* ---------------------------------------------------------------- C12
CountsItsHits(u) == u.count = Len(u.hits) /\ Len(u.hits) >= 1

\* C12: at every point of a scan every FeatureUsage has count = number of its hits and at
\* least one hit, in the usages under construction, in the returned features and in the
\* written report; so a feature without a hit has no entry.
C12_CountIsHits ==
    /\ \A id \in DOMAIN usages : CountsItsHits(usages[id])
    /\ Returned =>
          /\ \A id \in ResultIds : CountsItsHits(res.features[id])
          /\ outDir # NoDir => \A id \in DOMAIN disk["report.json"].json.features :
                           CountsItsHits(disk["report.json"].json.features[id])

\* C12 witness: a returned feature with three hits collected from two files, while
\* another feature of the table has no hit and no entry.
C12_Witness ==
    /\ Returned
    /\ \E id \in ResultIds :
          /\ res.features[id].count = 3
          /\ \E i, j \in 1..3 : res.features[id].hits[i].file # res.features[id].hits[j].file
    /\ \E id \in DOMAIN FEATURES : id \notin ResultIds

\* ---------------------------------------------------------------- C13
\* C13: a scan of a source directory without matching files (empty, or holding only
\* entries the walk does not collect) returns no features, achieved = 100 and pass = true,
\* for every coverageBudget from 0 to 100.
C13_NothingToScanPasses ==
    (Returned /\ files = << >> /\ Has(cfg, "coverageBudget") /\ cfg.coverageBudget \in 0..100) =>
        /\ res.features = EmptyMap
        /\ res.summary.achieved = 100
        /\ res.summary.pass = TRUE

\* C13 witness: a directory holding only a file the walk does not collect was scanned
\* under a budget of 100 and passed.
C13_Witness ==
    /\ Returned
    /\ srcDir.content = << "README.md" >>
    /\ files = << >>
    /\ Has(cfg, "coverageBudget")
    /\ cfg.coverageBudget = 100
    /\ res.features = EmptyMap
    /\ res.summary.pass

\* ---------------------------------------------------------------- C14
Exited == pc = "exited"

\* C14 (as stated): the scan command exits with 0 if summary.pass is true, with 1 if
\* there are warnings but no violations, and with 2 if there is any violation or the
\* source directory does not exist.
C14_ExitZeroIfPass ==
    Exited =>
        IF ~srcDir.exists THEN exitCode = 2
        ELSE /\ res.summary.pass => exitCode = 0
             /\ (Len(res.summary.warnings) # 0 /\ Len(res.summary.violations) = 0)
                    => exitCode = 1
             /\ Len(res.summary.violations) # 0 => exitCode = 2

\* C14 (amended): whenever the scan command reaches an exit call, it exits with 2 if the
\* source directory does not exist or there is any violation, otherwise with 1 if there
\* is any warning, and with 0 exactly when there are neither violations nor warnings;
\* summary.pass does not decide the exit code.
C14_ExitByViolationsThenWarnings ==
    Exited =>
        IF ~srcDir.exists THEN exitCode = 2
        ELSE /\ Len(res.summary.violations) # 0 => exitCode = 2
             /\ (Len(res.summary.violations) = 0 /\ Len(res.summary.warnings) # 0)
                    => exitCode = 1
             /\ (Len(res.summary.violations) = 0 /\ Len(res.summary.warnings) = 0)
                    => exitCode = 0

\* C14 witness: the command has exited with 1 on a report that passes and has warnings.
C14_Witness ==
    /\ Exited
    /\ srcDir.exists
    /\ res.summary.pass
    /\ Len(res.summary.warnings) # 0
    /\ exitCode = 1

\* ---------------------------------------------------------------- C15
NoWorseThanWarn(id) == res.features[id].severity \in {"info", "warn"}

\* A rule of the policy that ends in error applies to the feature: newly under
\* treatNewlyAsViolation, an override severity of error, or a coverage below the
\* override's minCoverage
RaisedByConfig(id) ==
    /\ id \notin cfg.ignore
    /\ \/ res.features[id].status = "newly" /\ cfg.treatNewlyAsViolation
       \/ Has(OverrideOf(id), "severity") /\ OverrideOf(id).severity = "error"
       \/ /\ Has(OverrideOf(id), "minCoverage")
          /\ Less(res.features[id].coverage, OverrideOf(id).minCoverage)

\* C15 (as stated): a scan of the sample script records exactly view-transitions and
\* clipboard-api, and whenever neither has status none each ends as info or warn.
C15_SampleNeverError ==
    (Returned /\ files = << "main.js" >>) =>
        /\ ResultIds = SampleIds
        /\ (\A id \in SampleIds : FEATURES[id].status # "none")
              => \A id \in SampleIds : NoWorseThanWarn(id)

\* C15 (amended): a scan of the sample script records exactly view-transitions (two hits)
\* and clipboard-api (one hit), and a feature whose status is not none ends as info or
\* warn unless the configuration raises it: newly under treatNewlyAsViolation, an
\* override severity of error, or a coverage below the override's minCoverage.
C15_SampleErrorOnlyByConfig ==
    (Returned /\ files = << "main.js" >>) =>
        /\ ResultIds = SampleIds
        /\ res.features["view-transitions"].count = 2
        /\ res.features["clipboard-api"].count = 1
        /\ \A id \in SampleIds :
              (FEATURES[id].status # "none" /\ ~RaisedByConfig(id)) => NoWorseThanWarn(id)

\* C15 witness: the sample script was scanned under the default configuration with both
\* features newly or widely; both are recorded, one as warn and one as info or warn.
C15_Witness ==
    /\ Returned
    /\ files = << "main.js" >>
    /\ ~rc.exists
    /\ ResultIds = SampleIds
    /\ FEATURES["view-transitions"].status = "newly"
    /\ FEATURES["clipboard-api"].status = "widely"
    /\ res.features["view-transitions"].severity = "warn"
    /\ NoWorseThanWarn("clipboard-api")

\* ---------------------------------------------------------------- C16
\* The data rows (all but the header line) with a browser name and a numeric share
ValidRows(rows) == {i \in 2..Len(rows) : rows[i].ua # "" /\ rows[i].share \in DOMAIN NumberOf}
HasBadRow(rows) == \E i \in 2..Len(rows) : rows[i].share \notin DOMAIN NumberOf

\* The distribution of the valid rows alone: name -> share of the last row with that name
AudienceOf(rows) ==
    [ n \in {TrimLower(rows[i].ua) : i \in ValidRows(rows)} |->
        LET last == CHOOSE i \in ValidRows(rows) :
                        /\ TrimLower(rows[i].ua) = n
                        /\ \A j \in ValidRows(rows) : TrimLower(rows[j].ua) = n => j <= i
        IN NumberOf[rows[last].share] ]

\* C16: a row whose share is not a number is dropped: loading the audience data never
\* fails, the distribution holds exactly the valid rows under their trimmed, lower-cased
\* names, and the coverage of every feature is the estimate from the valid rows alone.
C16_BadRowsDropped ==
    (csv.exists /\ rc.exists) =>
        /\ (pc = "failed" /\ files = << >>) => walk(srcDir).threw
        /\ pc # "start" => analytics = AudienceOf(csv.content)
        /\ Returned => \A id \in ResultIds :
               res.features[id].coverage =
                   estimateCoverage(FEATURES[id].browsers, AudienceOf(csv.content), cfg)

\* C16 witness: a scan returned with audience data whose second data row has the share
\* "n/a"; the rows before and after it count, and a chrome-only feature has coverage 70.
C16_Witness ==
    /\ Returned
    /\ csv.exists
    /\ HasBadRow(csv.content)
    /\ DOMAIN analytics = {"chrome", "firefox", "edge"}
    /\ analytics["firefox"] = 30
    /\ \E id \in ResultIds : FEATURES[id].browsers = {"chrome"} /\ res.features[id].coverage = 70

\* ---------------------------------------------------------------- C17
\* The documented default of every field
Defaults ==
    [ coverageBudget |-> 95, treatNewlyAsViolation |-> FALSE, ignore |-> {},
      overrides |-> EmptyMap, browserslist |-> ">0.5%, not dead" ]

\* The configuration a scan is to run with: the file's fields, the default for the others
Defaulted(file) ==
    [ f \in DOMAIN Defaults |->
        IF file.exists /\ Has(file.content, f) THEN file.content[f] ELSE Defaults[f] ]

\* C17: a missing configuration file or a missing field never aborts a scan: a scan
\* fails only in the walk or in a file's extraction, and a returned result carries the
\* configured or default coverageBudget and a pass computed against it.
C17_MissingConfigIsDefaulted ==
    /\ pc = "failed" => (walk(srcDir).threw \/ idx <= Len(files))
    /\ Returned =>
          /\ Has(res.summary, "coverageBudget")
          /\ res.summary.coverageBudget = Defaulted(rc).coverageBudget
          /\ res.summary.pass = ( /\ Len(res.summary.violations) = 0
                                  /\ res.summary.achieved >= Defaulted(rc).coverageBudget )

\* ---------------------------------------------------------------- C18
Rank(sev) == CASE sev = "info" -> 0 [] sev = "warn" -> 1 [] sev = "error" -> 2

\* The severity of usage u after the status, override-severity and minCoverage rules,
\* for the coverage the classification computed
BeforeBudget(u, coverage) ==
    MinCoverageRule(OverrideSeverityRule(StatusRule(u.severity, FEATURES[u.id].status, cfg),
                                         u.id, cfg),
                    u.id, coverage, cfg)

\* C18: in every classification that runs to its end, a feature not in ignore ends no
\* lower than its severity after the status, override-severity and minCoverage rules; if
\* its coverage is below coverageBudget it ends as warn or error, and as error exactly
\* when it was error after those rules.
C18_BudgetRaisesToWarn ==
    [][ (Classify /\ pc' = "classified") =>
          \A id \in DOMAIN usages :
              id \notin cfg.ignore =>
                  LET before == BeforeBudget(usages[id], usages'[id].coverage)
                      final == usages'[id].severity
                  IN /\ Rank(final) >= Rank(before)
                     /\ BelowBudget(usages'[id].coverage) =>
                            /\ final \in {"warn", "error"}
                            /\ (final = "error") <=> (before = "error") ]_vars

\* C18 witness: a returned scan in which a widely-status feature without override is
\* below the budget and ends as warn, and a feature below the budget ends as error.
C18_Witness ==
    /\ Returned
    /\ \E id \in ResultIds :
          /\ id \notin cfg.ignore
          /\ id \notin DOMAIN cfg.overrides
          /\ res.features[id].status = "widely"
          /\ BelowBudget(res.features[id].coverage)
          /\ res.features[id].severity = "warn"
    /\ \E id \in ResultIds :
          /\ id \notin cfg.ignore
          /\ BelowBudget(res.features[id].coverage)
          /\ res.features[id].severity = "error"

\* ---------------------------------------------------------------- C19
\* C19: a feature that is not ignored, whose override sets severity S and whose coverage
\* is at least coverageBudget and at least the override's minCoverage (if it has one),
\* ends with severity S.
C19_OverrideSeverityWins ==
    Returned =>
        \A id \in ResultIds :
            ( /\ id \notin cfg.ignore
              /\ Has(OverrideOf(id), "severity")
              /\ MeetsBudget(res.features[id].coverage)
              /\ Has(OverrideOf(id), "minCoverage")
                    => AtLeast(res.features[id].coverage, OverrideOf(id).minCoverage) )
                => res.features[id].severity = OverrideOf(id).severity

\* C19 witness: a none-status feature with an override severity of info and a coverage at
\* or above the budget ends as info.
C19_Witness ==
    /\ Returned
    /\ \E id \in ResultIds :
          /\ id \notin cfg.ignore
          /\ res.features[id].status = "none"
          /\ Has(OverrideOf(id), "severity")
          /\ OverrideOf(id).severity = "info"
          /\ MeetsBudget(res.features[id].coverage)
          /\ res.features[id].severity = "info"

\* ---------------------------------------------------------------- C20
\* C20: a newly-status feature that is not ignored and has no override ends as error
\* when treatNewlyAsViolation is set and as warn when it is not, whatever its coverage
\* and whether or not extraction softened it.
C20_NewlyIsWarnOrError ==
    Returned =>
        \A id \in ResultIds :
            ( /\ res.features[id].status = "newly"
              /\ id \notin cfg.ignore
              /\ id \notin DOMAIN cfg.overrides )
                => res.features[id].severity =
                       IF Truthy(cfg, "treatNewlyAsViolation") THEN "error" ELSE "warn"

\* C20 witness: a newly-status feature found only in a stylesheet without an @supports
\* wrapper, with coverage at or above the budget and treatNewlyAsViolation off, ends as
\* warn.
C20_Witness ==
    /\ Returned
    /\ ~Truthy(cfg, "treatNewlyAsViolation")
    /\ \E id \in ResultIds :
          /\ res.features[id].status = "newly"
          /\ id \notin cfg.ignore
          /\ id \notin DOMAIN cfg.overrides
          /\ \A k \in 1..Len(res.features[id].hits) : res.features[id].hits[k].file = "plain.css"
          /\ MeetsBudget(res.features[id].coverage)
          /\ res.features[id].severity = "warn"

\* ---------------------------------------------------------------- C21
\* Every file has been extracted and the classification loop has not run yet
ExtractionDone == pc = "extract" /\ idx > Len(files)

\* The hit is a script hit on a line with the guard idiom, or lies in a stylesheet whose
\* text has an @supports( wrapper
SoftenedHit(h) ==
    \/ Entries[h.file].kind = "script" /\ h.snippet \in GuardIdiomLines
    \/ Entries[h.file].kind = "style" /\ Entries[h.file].wrapped

\* C21: when extraction has finished, before the policy rules run, every feature's
\* severity is info or warn, and it is warn exactly when one of its hits is a script hit
\* on a guard-idiom line or a hit in a stylesheet containing @supports(; a :has rule in
\* a stylesheet without @supports( leaves selector-has at info.
C21_WarnIffSoftened ==
    ExtractionDone =>
        \A id \in DOMAIN usages :
            /\ usages[id].severity \in {"info", "warn"}
            /\ (usages[id].severity = "warn")
                 <=> (\E k \in 1..Len(usages[id].hits) : SoftenedHit(usages[id].hits[k]))

\* C21 witness: extraction of a guarded script and of a stylesheet without @supports( has
\* finished; view-transitions is at warn and selector-has, found by its :has rule, at info.
C21_Witness ==
    /\ ExtractionDone
    /\ files = << "app.js", "plain.css" >>
    /\ "view-transitions" \in DOMAIN usages
    /\ usages["view-transitions"].severity = "warn"
    /\ "selector-has" \in DOMAIN usages
    /\ usages["selector-has"].hits[1].file = "plain.css"
    /\ usages["selector-has"].severity = "info"

\* ---------------------------------------------------------------- C22
ReportFiles == {"report.json", "index.html", "badge.svg"}

\* C22: no report file exists before the scan has extracted every file, classified every
\* feature and assembled the result; a scan that fails in the walk, in extraction or in
\* classification leaves none; and once the scan has returned with an output directory
\* the three files exist and report.json holds the returned ScanResult.
C22_ReportOnlyAtEnd ==
    /\ pc # "done" => disk = EmptyMap
    /\ Returned =>
          IF outDir # NoDir
          THEN DOMAIN disk = ReportFiles /\ disk["report.json"].json = res
          ELSE disk = EmptyMap

\* ---------------------------------------------------------------- C23
\* C23: one rule instance starts scanProject at most once, also when Program is entered
\* again before the first call has stored the cache, and a Program call that finds the
\* cache set starts no scan.
C23_ScanStartedOnce == lint.started <= 1

\* ---------------------------------------------------------------- C24
\* C24: for a coverageBudget from 0 to 100, a report whose summary has pass false has a
\* violation or a warning, and the scan command does not exit with 0 on it.
C24_FailingReportHasFindings ==
    ( /\ pc \in {"done", "exited"}
      /\ srcDir.exists
      /\ Has(res, "summary")
      /\ Has(cfg, "coverageBudget")
      /\ cfg.coverageBudget \in 0..100
      /\ ~res.summary.pass ) =>
        /\ Len(res.summary.violations) # 0 \/ Len(res.summary.warnings) # 0
        /\ Exited => exitCode # 0

\* ---------------------------------------------------------------- C25
HitSet(u) == {u.hits[k] : k \in 1..Len(u.hits)}

\* Two results that differ at most in the order of hits and of ids
SameUpToOrder(r1, r2) ==
    /\ DOMAIN r1.features = DOMAIN r2.features
    /\ \A id \in DOMAIN r1.features :
          /\ r1.features[id].count = r2.features[id].count
          /\ r1.features[id].coverage = r2.features[id].coverage
          /\ r1.features[id].severity = r2.features[id].severity
          /\ HitSet(r1.features[id]) = HitSet(r2.features[id])
    /\ SeqRange(r1.summary.violations) = SeqRange(r2.summary.violations)
    /\ SeqRange(r1.summary.warnings) = SeqRange(r2.summary.warnings)
    /\ r1.summary.achieved = r2.summary.achieved
    /\ r1.summary.pass = r2.summary.pass

\* C25: a scan of the same files under the same configuration and audience data, walked
\* in another order, ends the same way: it fails if the first failed, and otherwise
\* every feature's count, coverage and final severity, the ids in violations and in
\* warnings, achieved and pass are those of the first scan.
C25_WalkOrderIrrelevant ==
    (scanNo = 2 /\ pc \in {"done", "failed"}) =>
        /\ pc = prev.pc
        /\ pc = "done" => SameUpToOrder(res, prev.res)

\* C25 witness: two scans of the same two files in opposite orders have returned; a
\* feature with hits in both files has its hits in another order and the same severity.
C25_Witness ==
    /\ scanNo = 2
    /\ Returned
    /\ Len(files) = 2
    /\ files # prev.files
    /\ \E id \in ResultIds :
          /\ res.features[id].hits # prev.res.features[id].hits
          /\ HitSet(res.features[id]) = HitSet(prev.res.features[id])
          /\ res.features[id].severity = prev.res.features[id].severity

\* ---------------------------------------------------------------- C26
\* C26: under a configuration that differs from the first scan's only in a higher
\* coverageBudget, no feature ends with a lower severity than in the first scan
\* (info < warn < error), and a report that did not pass does not pass now.
C26_MonotoneInBudget ==
    (scanNo = 2 /\ Returned) =>
        /\ cfg.coverageBudget >= prev.cfg.coverageBudget
        /\ DOMAIN res.features = DOMAIN prev.res.features
        /\ \A id \in ResultIds :
              Rank(res.features[id].severity) >= Rank(prev.res.features[id].severity)
        /\ ~prev.res.summary.pass => ~res.summary.pass

\* C26 witness: after the budget was raised a feature went from info to warn and the
\* report from passing to failing.
C26_Witness ==
    /\ scanNo = 2
    /\ Returned
    /\ cfg.coverageBudget > prev.cfg.coverageBudget
    /\ \E id \in ResultIds :
          /\ prev.res.features[id].severity = "info"
          /\ res.features[id].severity = "warn"
    /\ prev.res.summary.pass
    /\ ~res.summary.pass
====
